---------------------------- MODULE Spec2Model ----------------------------
(***************************************************************************)
(* Model of the multi-threaded chat server of week1/server.py (ChatServer, *)
(* admin_console, main).                                                   *)
(*                                                                         *)
(* Threads: the main thread (ChatServer.start, the acceptor), the admin    *)
(* console thread, and one handler thread per accepted connection.         *)
(* Every `with self.lock:` block is one atomic step (the lock gives mutual *)
(* exclusion and no block performs I/O); every socket call (sendall, recv, *)
(* close, accept) is a step of its own.                                    *)
(*                                                                         *)
(* Text is a sequence of one-character strings.  The fixed Korean phrases  *)
(* of the server are written as single romanised tokens, since only the    *)
(* client-supplied parts of a line are ever parsed.                        *)
(***************************************************************************)
EXTENDS Naturals, Sequences, FiniteSets

\* ------------------------------------------------------------------ bounds
\* SpecPeers: the number of peers that connect, and the number of chunks they
\* send after their nicknames, all together.
NumConns == 2
MaxLines == 1
\* Spec: the same for the complete server, with the admin console.
SoloConns == 1
SoloLines == 1
\* SpecRegistry: the number of calls of _remove_client for one connection.
MaxRemoves == 2
\* SpecChat: the number of established sessions and the chunks they send.
ChatConns == 3
ChatLines == 2

\* SpecStream: the established sessions with reads that hold no line, one
\* line or two lines.
StreamLines == 2

\* SpecLock: peers that join and leave, with the registry lock taken and
\* released in steps of their own.
LockConns == 2

\* SpecScenario: two peers that follow a script of three lines, and one more
\* that connects and stays silent.
ScenarioConns == 3
ScenarioLines == 3

\* SpecNames: peers that take the nicknames "a b" and "z" and whisper to
\* them.
NameConns == 2
NameLines == 2

MaxOf(a, b) == IF a >= b THEN a ELSE b
Conns == 1..MaxOf(MaxOf(MaxOf(NumConns, LockConns), NameConns),
                  MaxOf(SoloConns, MaxOf(ChatConns, ScenarioConns)))
Threads == {"main", "admin"}

\* ------------------------------------------------------------------- text
NoNick == <<>>
NoSock == 0

IsSpace(ch) == ch \in {" ", "\n"}

RECURSIVE LStrip(_)
LStrip(s) == IF s # <<>> /\ IsSpace(Head(s)) THEN LStrip(Tail(s)) ELSE s

RECURSIVE RStrip(_)
RStrip(s) ==
    IF s # <<>> /\ IsSpace(s[Len(s)]) THEN RStrip(SubSeq(s, 1, Len(s) - 1)) ELSE s

\* bytes.decode('utf-8', errors='ignore').strip()
Strip(s) == RStrip(LStrip(s))

StartsWith(s, p) == Len(s) >= Len(p) /\ SubSeq(s, 1, Len(p)) = p

\* Index of the first space of s, 0 when it has none.
RECURSIVE FindSpace(_, _)
FindSpace(s, i) ==
    IF i > Len(s) THEN 0 ELSE IF s[i] = " " THEN i ELSE FindSpace(s, i + 1)

\* str.split(' ', n)
RECURSIVE Split(_, _)
Split(s, n) ==
    LET i == FindSpace(s, 1)
    IN  IF n = 0 \/ i = 0
        THEN <<s>>
        ELSE <<SubSeq(s, 1, i - 1)>> \o Split(SubSeq(s, i + 1, Len(s)), n - 1)

Digit(d) == <<"0", "1", "2", "3", "4", "5", "6", "7", "8", "9">>[d + 1]

\* str(i)
RECURSIVE Str(_)
Str(i) == IF i < 10 THEN <<Digit(i)>> ELSE Str(i \div 10) \o <<Digit(i % 10)>>

\* The server's fixed lines and line formats.
QUIT == <<"/", "jong", "ryo">>
WPREFIX == <<"/", "w", " ">>
DEFAULT_NICK == <<"u", "s", "e", "r">>
UNKNOWN_NICK == <<"al-su-eobs-eum">>
PROMPT == <<"nicknameeul ibryeokhaejuseyo:">>
HELP1 == <<"annae: ilban mesijineun moduege jeonsongdoebnida.">>
HELP2 == <<"annae: jongryoneun /jongryo, gwissokmareun /w daesangnick mesiji">>
CLOSING == <<"yeongyeoreul jongryohabnida.">>
USAGE == <<"hyeongsik: /w daesangnick mesiji">>
NOTICE == <<"seobeoga jongryodoebnida.">>
ConfirmLine(n) == <<"nicknamei [">> \o n \o <<"]ro seoljeongdoeeossseubnida.">>
JoinLine(n) == <<"[">> \o n \o <<"]nimi ibjanghasyeossseubnida.">>
LeaveLine(n) == <<"[">> \o n \o <<"]nimi toejanghasyeossseubnida.">>
\* A chat line without the sender's nickname.
ChatLineBare(s, m) == m
ChatLine(s, m) == s \o <<">", " ">> \o m
NotFoundLine(t) == <<"daesang [">> \o t \o <<"]eul(reul) chajeul su eobsseubnida.">>
\* A whisper line without its tag, like a chat line.
WhisperLineUntagged(s, m) == s \o <<">", " ">> \o m
WhisperLine(s, m) == <<"(gwissokmal) ">> \o s \o <<">", " ">> \o m
WhisperSentLine(s, t, m) ==
    <<"(gwissokmal jeonsong) ">> \o s \o <<" ", "-", ">", " ">> \o t \o <<":", " ">> \o m

\* What the peers send: the nickname chunk, then chunks in the session loop.
NAME_A == <<"a", "\n">>
NAME_BLANK == <<" ", "\n">>
NAME_A3 == <<"a", "3", "\n">>
CHAT_HI == <<"h", "i", "\n">>
QUIT_CMD == <<"/", "jong", "ryo", "\n">>
WHISPER_A == <<"/", "w", " ", "a", " ", "h", " ", "i", "\n">>
WHISPER_A2 == <<"/", "w", " ", "a", "2", " ", "h", "\n">>
WHISPER_ZED == <<"/", "w", " ", "z", " ", "h", "\n">>
WHISPER_BAD == <<"/", "w", " ", "a", "\n">>
WHISPER_NOTARGET == <<"/", "w", " ", " ", "h", "\n">>
QUIT_PLUS == <<"/", "jong", "ryo", " ", "x", "\n">>
\* One read with a chat line and the quit command; one with a line of white
\* space only.
TWO_LINES == <<"h", "i", "\n", "/", "jong", "ryo", "\n">>
BLANK_LINE == <<" ", " ", "\n">>
\* A nickname with a space inside, one without, and a whisper to each.
NAME_A_B == <<"a", " ", "b", "\n">>
NAME_Z == <<"z", "\n">>
WHISPER_A_B == <<"/", "w", " ", "a", " ", "b", " ", "h", "i", "\n">>
RawNames == { NAME_A, NAME_BLANK }
Chunks ==
    { CHAT_HI, QUIT_CMD, QUIT_PLUS, WHISPER_A, WHISPER_A2, WHISPER_ZED, WHISPER_BAD,
      WHISPER_NOTARGET }

\* ------------------------------------------------------------------ state
VARIABLES
    clients,       \* self.clients: sock -> nickname
    clients_keys,  \* the insertion order of self.clients (dict order)
    nick_map,      \* self.nick_map: nickname -> sock
    stop_event,    \* self.stop_event
    server_sock,   \* the listening socket: "open" | "closed"
    sock,          \* per connection: "none" (not accepted) | "open" | "closed"
    inflight,      \* connections closed by _shutdown while their handler was inside recv
    h,             \* per connection: the handler thread's position and locals
    out,           \* out[d][c]: the lines handler c wrote to the open socket d, in order
    notices,       \* notices[d][t]: the lines _shutdown of thread t wrote to socket d
    lines,         \* chunks the peers have sent after their nicknames, all together
    env,           \* the peers of this run: how many connect and what they send
    mainpc,        \* position of the main thread in ChatServer.start
    adminpc,       \* position of the admin console thread
    sd,            \* per thread: position and locals of its _shutdown call
    running,       \* FALSE once main() has returned and the process is gone
    cleanups,      \* history: per connection, calls of _remove_client by its handler
    leaves,        \* history: per connection, leave announcements broadcast for it
    lateAccepts    \* history: connections accept() returned while stop_event was set

registry == <<clients, clients_keys, nick_map>>
history == <<cleanups, leaves, lateAccepts>>

vars == <<registry, stop_event, server_sock, sock, inflight, h, out, notices, lines,
          env, mainpc, adminpc, sd, running, history>>

Range(f) == { f[x] : x \in DOMAIN f }

\* A handler thread's locals; `issued` is history: the lines of the messages
\* the handler has sent or begun to broadcast, in the order of its calls.
\* `holds` says that the thread is inside a `with self.lock:` block; it is
\* FALSE between the steps of the specifications that take such a block as
\* one step.  `popped` is the local `nickname` of _remove_client.
IdleHandler ==
    [pc |-> "idle", ret |-> "-", data |-> <<>>, raw |-> <<>>, nickname |-> NoNick,
     holds |-> FALSE, popped |-> NoNick, issued |-> <<>>, msg |-> <<>>,
     line |-> <<>>, targets |-> <<>>, ti |-> 0, target_sock |-> NoSock,
     sender_nick |-> NoNick]

IdleShutdown == [pc |-> "idle", holds |-> FALSE, targets |-> <<>>, ti |-> 0]

\* ChatServer.__init__ followed by bind and listen.
InitServer ==
    /\ clients = <<>>
    /\ clients_keys = <<>>
    /\ nick_map = <<>>
    /\ stop_event = FALSE
    /\ server_sock = "open"
    /\ sock = [c \in Conns |-> "none"]
    /\ inflight = {}
    /\ h = [c \in Conns |-> IdleHandler]
    /\ out = [d \in Conns |-> [c \in Conns |-> <<>>]]
    /\ notices = [d \in Conns |-> [t \in Threads |-> <<>>]]
    /\ lines = 0
    /\ mainpc = "check"
    /\ adminpc = "input"
    /\ sd = [t \in Threads |-> IdleShutdown]
    /\ running = TRUE
    /\ cleanups = [c \in Conns |-> 0]
    /\ leaves = [c \in Conns |-> 0]
    /\ lateAccepts = 0

\* Spec: the complete server from its construction, with SoloConns peers.
Init ==
    /\ InitServer
    /\ env = [peers |-> SoloConns, names |-> RawNames, chunks |-> Chunks,
              maxlines |-> SoloLines]

\* SpecPeers: the server from its construction, with NumConns peers that ask
\* for the same nickname and then chat or quit.
InitPeers ==
    /\ InitServer
    /\ env = [peers |-> NumConns, names |-> {NAME_A}, chunks |-> {CHAT_HI, QUIT_CMD},
              maxlines |-> MaxLines]

\* SpecLock: the server after construction, with peers that ask for the
\* nickname "a" and send no line after it.
InitLock ==
    /\ InitServer
    /\ env = [peers |-> LockConns, names |-> {NAME_A}, chunks |-> {}, maxlines |-> 0]

\* SpecNames: the server after construction, with peers that ask for the
\* nickname "a b" or "z" and then send `/w a b hi` or `/w z h`.
InitNames ==
    /\ InitServer
    /\ env = [peers |-> NameConns, names |-> {NAME_A_B, NAME_Z},
              chunks |-> {WHISPER_A_B, WHISPER_ZED}, maxlines |-> NameLines]

\* SpecScenario: the server after construction, with peers that all ask for
\* the nickname "a" and send chat lines, whispers to "a" and the quit command.
InitScenario ==
    /\ InitServer
    /\ env = [peers |-> ScenarioConns, names |-> {NAME_A},
              chunks |-> {CHAT_HI, WHISPER_A, QUIT_CMD}, maxlines |-> ScenarioLines]

\* SpecChat: ChatConns sessions are established.  The peers connected one
\* after the other and all asked for the nickname "a"; ChatNick(k) is the
\* nickname _make_unique_nickname gave the k-th of them, and every handler
\* has written its handshake lines and waits in recv.
ChatNick(k) == IF k = 1 THEN <<"a">> ELSE <<"a">> \o Str(k)
ChatSessions == 1..ChatConns
Established ==
    /\ clients = [c \in ChatSessions |-> ChatNick(c)]
    /\ clients_keys = [c \in ChatSessions |-> c]
    /\ nick_map = [n \in {ChatNick(c) : c \in ChatSessions} |->
                      CHOOSE c \in ChatSessions : ChatNick(c) = n]
    /\ stop_event = FALSE
    /\ server_sock = "open"
    /\ sock = [c \in Conns |-> IF c \in ChatSessions THEN "open" ELSE "none"]
    /\ inflight = {}
    /\ h = [c \in Conns |->
               IF c \in ChatSessions
               THEN [IdleHandler EXCEPT !.pc = "recv", !.nickname = ChatNick(c),
                                        !.issued = <<PROMPT, ConfirmLine(ChatNick(c)),
                                                     JoinLine(ChatNick(c)), HELP1, HELP2>>]
               ELSE IdleHandler]
    /\ out = [d \in Conns |-> [c \in Conns |->
                 IF c \notin ChatSessions \/ d \notin ChatSessions \/ d > c THEN <<>>
                 ELSE IF d < c THEN <<JoinLine(ChatNick(c))>>
                 ELSE <<PROMPT, ConfirmLine(ChatNick(c)), JoinLine(ChatNick(c)),
                        HELP1, HELP2>>]]
    /\ notices = [d \in Conns |-> [t \in Threads |-> <<>>]]
    /\ lines = 0
    /\ mainpc = "accept"
    /\ adminpc = "input"
    /\ sd = [t \in Threads |-> IdleShutdown]
    /\ running = TRUE
    /\ cleanups = [c \in Conns |-> 0]
    /\ leaves = [c \in Conns |-> 0]
    /\ lateAccepts = 0

InitChat ==
    /\ Established
    /\ env = [peers |-> ChatConns, names |-> {NAME_A}, chunks |-> Chunks,
              maxlines |-> ChatLines]

\* SpecStream: the established sessions, whose peers send chat lines, the
\* quit command, both in one read, or a blank line.
InitStream ==
    /\ Established
    /\ env = [peers |-> ChatConns, names |-> {NAME_A},
              chunks |-> {CHAT_HI, QUIT_CMD, TWO_LINES, BLANK_LINE},
              maxlines |-> StreamLines]

\* SpecJoin: the same number of peers from the construction of the server,
\* asking for "a" or for "a3"; with "a" only, they end up in Established.
InitJoin ==
    /\ InitServer
    /\ env = [peers |-> ChatConns, names |-> {NAME_A, NAME_A3}, chunks |-> Chunks,
              maxlines |-> ChatLines]

\* ------------------------------------------------------------- primitives
\* _send_line: sendall on an open socket writes the line; on a closed socket
\* object it raises OSError, which is swallowed.
\* A send that puts the line in front of what the connection already got.
SendLineFront(o, w, d, line) ==
    IF sock[d] = "open" THEN [o EXCEPT ![d][w] = <<line>> \o @] ELSE o

SendLine(o, w, d, line) ==
    IF sock[d] = "open" THEN [o EXCEPT ![d][w] = Append(@, line)] ELSE o

\* dict with key k set to v / with key k removed.
Put(f, k, v) == [x \in DOMAIN f \cup {k} |-> IF x = k THEN v ELSE f[x]]
Del(f, k) == [x \in DOMAIN f \ {k} |-> f[x]]
Get(f, k, default) == IF k \in DOMAIN f THEN f[k] ELSE default

SeqRemove(s, x) == SelectSeq(s, LAMBDA y : y # x)

Accepted == { c \in Conns : sock[c] # "none" }


\* socket.close() of connection d; closing a closed socket changes nothing.
CloseSock(d) == sock' = [sock EXCEPT ![d] = "closed"]

\* ------------------------------------------------- main thread: start()
\* A loop that never looks at the flag.
LoopForever == "accept"

\* A loop condition that tests the listening socket instead of the flag.
LoopHeadListener == IF server_sock = "closed" THEN "finally" ELSE "accept"

\* `while not self.stop_event.is_set():` leads into the loop body or to `finally`.
LoopHead == IF stop_event THEN "finally" ELSE "accept"

\* The first evaluation of the loop condition.
StartCheck ==
    /\ running /\ mainpc = "check"
    /\ mainpc' = LoopHead
    /\ UNCHANGED <<env, notices, registry, stop_event, server_sock, sock, inflight, h, out, lines,
                   adminpc, sd, running, history>>

\* accept() returns a connection, the handler thread is started and the loop
\* condition is evaluated again.
StartAccept ==
    /\ running /\ mainpc = "accept" /\ server_sock = "open"
    /\ Cardinality(Accepted) < env.peers
    /\ LET c == Cardinality(Accepted) + 1
       IN  /\ sock' = [sock EXCEPT ![c] = "open"]
           /\ h' = [h EXCEPT ![c].pc = "hs_prompt"]
    /\ lateAccepts' = IF stop_event THEN lateAccepts + 1 ELSE lateAccepts
    /\ mainpc' = LoopHead
    /\ UNCHANGED <<env, notices, registry, stop_event, server_sock, inflight, out, lines, adminpc, sd,
                   running, cleanups, leaves>>

\* accept() raises socket.timeout: `continue`, and the loop condition is
\* evaluated again.
StartTimeout ==
    /\ running /\ mainpc = "accept"
    /\ mainpc' = LoopHead
    /\ UNCHANGED <<env, notices, registry, stop_event, server_sock, sock, inflight, h, out, lines,
                   adminpc, sd, running, history>>

\* accept() on the closed listening socket raises OSError, which only the
\* `finally` clause handles.
StartAcceptError ==
    /\ running /\ mainpc = "accept" /\ server_sock = "closed"
    /\ mainpc' = "finally"
    /\ UNCHANGED <<env, notices, registry, stop_event, server_sock, sock, inflight, h, out, lines,
                   adminpc, sd, running, history>>

\* KeyboardInterrupt in the accept loop.
StartInterrupt ==
    /\ running /\ mainpc \in {"check", "accept"}
    /\ mainpc' = "finally"
    /\ UNCHANGED <<env, notices, registry, stop_event, server_sock, sock, inflight, h, out, lines,
                   adminpc, sd, running, history>>

\* The call of _shutdown by thread t and its first statement,
\* `self.stop_event.set()`.
ShutdownEnter(t) ==
    /\ stop_event' = TRUE
    /\ sd' = [sd EXCEPT ![t].pc = "snapshot"]

\* `finally: self._shutdown()`
StartFinally ==
    /\ running /\ mainpc = "finally"
    /\ mainpc' = "shutdown"
    /\ ShutdownEnter("main")
    /\ UNCHANGED <<env, notices, registry, server_sock, sock, inflight, h, out, lines, adminpc,
                   running, history>>

\* start() returns, main() returns: the process ends and its daemon threads with it.
MainReturn ==
    /\ running /\ mainpc = "shutdown" /\ sd["main"].pc = "done"
    /\ mainpc' = "exited"
    /\ running' = FALSE
    /\ UNCHANGED <<env, notices, registry, stop_event, server_sock, sock, inflight, h, out, lines,
                   adminpc, sd, history>>

\* ------------------------------------------------ admin console thread
\* input() returns the quit command: server._shutdown() is called.
AdminQuit ==
    /\ running /\ adminpc = "input"
    /\ adminpc' = "shutdown"
    /\ ShutdownEnter("admin")
    /\ UNCHANGED <<env, notices, registry, server_sock, sock, inflight, h, out, lines, mainpc,
                   running, history>>

\* input() returns any other line: the loop goes on.
AdminOther ==
    /\ running /\ adminpc = "input"
    /\ UNCHANGED vars

\* input() raises EOFError: `break`.
AdminEOF ==
    /\ running /\ adminpc = "input"
    /\ adminpc' = "done"
    /\ UNCHANGED <<env, notices, registry, stop_event, server_sock, sock, inflight, h, out, lines,
                   mainpc, sd, running, history>>

\* ------------------------------------------------------------ _shutdown
\* `with self.lock: targets = list(self.clients.keys())`
ShutdownSnapshot(t) ==
    /\ running /\ sd[t].pc = "snapshot"
    /\ sd' = [sd EXCEPT ![t].targets = clients_keys, ![t].ti = 1, ![t].holds = FALSE,
                        ![t].pc = IF clients_keys = <<>> THEN "listener" ELSE "send"]
    /\ UNCHANGED <<env, notices, registry, stop_event, server_sock, sock, inflight, h, out, lines,
                   mainpc, adminpc, running, history>>

\* A drain that closes the connection without the notice.
ShutdownSendSkipped(t) ==
    /\ running /\ sd[t].pc = "send"
    /\ sd' = [sd EXCEPT ![t].pc = "close"]
    /\ UNCHANGED <<env, out, notices, registry, stop_event, server_sock, sock, inflight, h, lines,
                   mainpc, adminpc, running, history>>

\* `self._send_line(sock, NOTICE)`
ShutdownSend(t) ==
    /\ running /\ sd[t].pc = "send"
    /\ notices' = SendLine(notices, t, sd[t].targets[sd[t].ti], NOTICE)
    /\ sd' = [sd EXCEPT ![t].pc = "close"]
    /\ UNCHANGED <<env, out, registry, stop_event, server_sock, sock, inflight, h, lines, mainpc,
                   adminpc, running, history>>

\* `sock.close()`, then the next target.  A handler at its recv on this
\* socket may be inside the call, which the close does not end.
ShutdownClose(t) ==
    /\ running /\ sd[t].pc = "close"
    /\ LET d == sd[t].targets[sd[t].ti]
       IN  /\ CloseSock(d)
           /\ inflight' = IF sock[d] = "open" /\ h[d].pc = "recv"
                          THEN inflight \cup {d} ELSE inflight
    /\ sd' = [sd EXCEPT ![t].ti = @ + 1,
                        ![t].pc = IF sd[t].ti = Len(sd[t].targets)
                                  THEN "listener" ELSE "send"]
    /\ UNCHANGED <<env, notices, registry, stop_event, server_sock, h, out, lines, mainpc, adminpc,
                   running, history>>

\* `self.server_sock.close()`
ShutdownListener(t) ==
    /\ running /\ sd[t].pc = "listener"
    /\ server_sock' = "closed"
    /\ sd' = [sd EXCEPT ![t].pc = "done"]
    /\ UNCHANGED <<env, notices, registry, stop_event, sock, inflight, h, out, lines, mainpc, adminpc,
                   running, history>>

Shutdown(t) ==
    \/ ShutdownSnapshot(t)
    \/ ShutdownSend(t)
    \/ ShutdownClose(t)
    \/ ShutdownListener(t)

\* -------------------------------------------------------- Client Registry
\* The loop of _make_unique_nickname: the first of base+str(i), i = 2, 3, ...
\* that is no key of nick_map.
RECURSIVE NextFree(_, _)
NextFree(base, i) ==
    LET cand == base \o Str(i)
    IN  IF cand \notin DOMAIN nick_map THEN cand ELSE NextFree(base, i + 1)

\* A suffix taken from the number of registered nicknames.
MakeNumberedNickname(base) ==
    IF base \notin DOMAIN nick_map THEN base
    ELSE base \o Str(Cardinality(DOMAIN nick_map) + 1)

\* _make_unique_nickname(base), one `with self.lock:` block.
MakeUniqueNickname(base) ==
    IF base \notin DOMAIN nick_map THEN base ELSE NextFree(base, 2)

\* _register_client: both maps are set in one `with self.lock:` block.
RegisterClient(c, nickname) ==
    /\ clients' = Put(clients, c, nickname)
    /\ clients_keys' = IF c \in DOMAIN clients THEN clients_keys
                       ELSE Append(clients_keys, c)
    /\ nick_map' = Put(nick_map, nickname, c)

\* A removal that forgets the nickname index.
RemoveClientsOnly(c) ==
    /\ clients' = Del(clients, c)
    /\ clients_keys' = SeqRemove(clients_keys, c)
    /\ nick_map' = nick_map

\* A removal that takes the nickname from the handler instead of the registry.
RemoveClientByNickname(c) ==
    /\ clients' = Del(clients, c)
    /\ clients_keys' = SeqRemove(clients_keys, c)
    /\ nick_map' = Del(nick_map, h[c].nickname)

\* The `with self.lock:` block of _remove_client: clients.pop(sock, None) and,
\* for a truthy nickname, nick_map.pop(nickname, None).
RemoveClient(c) ==
    LET nickname == Get(clients, c, NoNick)
    IN  /\ clients' = Del(clients, c)
        /\ clients_keys' = SeqRemove(clients_keys, c)
        /\ nick_map' = IF nickname # NoNick THEN Del(nick_map, nickname) ELSE nick_map

\* A lookup that gives a fixed name for every registered connection.
GetNicknameFixed(c) == IF c \in DOMAIN clients THEN UNKNOWN_NICK ELSE NoNick

\* _get_nickname
GetNickname(c) == Get(clients, c, NoNick)

\* -------------------------------------------------------- handler thread
\* _handshake_for_nickname: `self._send_line(client_sock, PROMPT)`
HandshakePrompt(c) ==
    /\ running /\ h[c].pc = "hs_prompt"
    /\ out' = SendLine(out, c, c, PROMPT)
    /\ h' = [h EXCEPT ![c].issued = Append(@, PROMPT),
                      ![c].pc = "hs_recv"]
    /\ UNCHANGED <<env, notices, registry, stop_event, server_sock, sock, inflight, lines, mainpc,
                   adminpc, sd, running, history>>

\* A handshake that takes the stripped line as it is.
HandshakeRecvNoDefault(c) ==
    /\ running /\ h[c].pc = "hs_recv"
    /\ \E data \in env.names :
           h' = [h EXCEPT ![c].pc = "hs_unique", ![c].data = data,
                          ![c].raw = Strip(data)]
    /\ UNCHANGED <<env, notices, registry, stop_event, server_sock, sock, inflight, out, lines,
                   mainpc, adminpc, sd, running, history>>

\* `data = client_sock.recv(1024)` returns the peer's nickname chunk; it is
\* decoded and stripped, and an empty result is replaced by the default.
HandshakeRecv(c) ==
    /\ running /\ h[c].pc = "hs_recv"
    /\ \E data \in env.names :
           h' = [h EXCEPT ![c].pc = "hs_unique", ![c].data = data,
                          ![c].raw = IF Strip(data) = <<>> THEN DEFAULT_NICK
                                     ELSE Strip(data)]
    /\ UNCHANGED <<env, notices, registry, stop_event, server_sock, sock, inflight, out, lines,
                   mainpc, adminpc, sd, running, history>>

\* recv returns b'' or raises ConnectionResetError: the handshake returns None.
\* A handshake that takes a read of nothing for an empty line.
HandshakeAbortAsDefault(c) ==
    /\ running /\ h[c].pc = "hs_recv"
    /\ h' = [h EXCEPT ![c].pc = "hs_unique", ![c].raw = DEFAULT_NICK]
    /\ UNCHANGED <<env, notices, registry, stop_event, server_sock, sock, inflight, out, lines,
                   mainpc, adminpc, sd, running, history>>

HandshakeAbort(c) ==
    /\ running /\ h[c].pc = "hs_recv"
    /\ h' = [h EXCEPT ![c].pc = "hs_fail"]
    /\ UNCHANGED <<env, notices, registry, stop_event, server_sock, sock, inflight, out, lines,
                   mainpc, adminpc, sd, running, history>>

\* A failed handshake that returns outside the try statement.
HandshakeFailReturn(c) ==
    /\ running /\ h[c].pc = "hs_fail"
    /\ CloseSock(c)
    /\ h' = [h EXCEPT ![c].pc = "done"]
    /\ UNCHANGED <<env, notices, registry, stop_event, server_sock, inflight, out, lines, mainpc,
                   adminpc, sd, running, history>>

\* `if nickname is None: client_sock.close(); return`, which enters `finally`.
HandshakeFailClose(c) ==
    /\ running /\ h[c].pc = "hs_fail"
    /\ CloseSock(c)
    /\ h' = [h EXCEPT ![c].pc = "cleanup"]
    /\ UNCHANGED <<env, notices, registry, stop_event, server_sock, inflight, out, lines, mainpc,
                   adminpc, sd, running, history>>

\* `nickname = self._make_unique_nickname(raw)`
HandshakeUnique(c) ==
    /\ running /\ h[c].pc = "hs_unique"
    /\ h' = [h EXCEPT ![c].pc = "hs_confirm", ![c].holds = FALSE,
                      ![c].nickname = MakeUniqueNickname(h[c].raw),
                      ![c].data = <<>>, ![c].raw = <<>>]
    /\ UNCHANGED <<env, notices, registry, stop_event, server_sock, sock, inflight, out, lines,
                   mainpc, adminpc, sd, running, history>>

\* `self._send_line(client_sock, ConfirmLine(nickname)); return nickname`
HandshakeConfirm(c) ==
    /\ running /\ h[c].pc = "hs_confirm"
    /\ out' = SendLine(out, c, c, ConfirmLine(h[c].nickname))
    /\ h' = [h EXCEPT ![c].issued = Append(@, ConfirmLine(h[c].nickname)),
                      ![c].pc = "register"]
    /\ UNCHANGED <<env, notices, registry, stop_event, server_sock, sock, inflight, lines, mainpc,
                   adminpc, sd, running, history>>

\* A handshake that announces the join without having registered.
RegisterSkipped(c) ==
    /\ running /\ h[c].pc = "register"
    /\ h' = [h EXCEPT ![c].pc = "bc_snap", ![c].line = JoinLine(h[c].nickname),
                      ![c].holds = FALSE,
                      ![c].issued = Append(@, JoinLine(h[c].nickname)),
                      ![c].ret = "help1"]
    /\ UNCHANGED <<env, notices, registry, stop_event, server_sock, sock, inflight, out, lines,
                   mainpc, adminpc, sd, running, history>>

\* `self._register_client(client_sock, nickname)`, then the call of
\* `self._broadcast(JoinLine(nickname))`.
Register(c) ==
    /\ running /\ h[c].pc = "register"
    /\ RegisterClient(c, h[c].nickname)
    /\ h' = [h EXCEPT ![c].pc = "bc_snap", ![c].line = JoinLine(h[c].nickname),
                      ![c].holds = FALSE,
                      ![c].issued = Append(@, JoinLine(h[c].nickname)),
                      ![c].ret = "help1"]
    /\ UNCHANGED <<env, notices, stop_event, server_sock, sock, inflight, out, lines, mainpc,
                   adminpc, sd, running, history>>

\* A broadcast that leaves out the calling handler's own connection.
BroadcastSnapshotOthers(c) ==
    /\ running /\ h[c].pc = "bc_snap"
    /\ h' = IF SeqRemove(clients_keys, c) = <<>>
            THEN [h EXCEPT ![c].pc = h[c].ret, ![c].ret = "-", ![c].line = <<>>]
            ELSE [h EXCEPT ![c].pc = "bc_send", ![c].targets = SeqRemove(clients_keys, c),
                           ![c].ti = 1]
    /\ UNCHANGED <<env, notices, registry, stop_event, server_sock, sock, inflight, out, lines,
                   mainpc, adminpc, sd, running, history>>

\* A broadcast that keeps the lock while it sends.
BroadcastSnapshotHolding(c) ==
    /\ running /\ h[c].pc = "bc_snap"
    /\ h' = IF clients_keys = <<>>
            THEN [h EXCEPT ![c].pc = h[c].ret, ![c].ret = "-", ![c].line = <<>>,
                           ![c].holds = FALSE]
            ELSE [h EXCEPT ![c].pc = "bc_send", ![c].targets = clients_keys,
                           ![c].ti = 1]
    /\ UNCHANGED <<env, notices, registry, stop_event, server_sock, sock, inflight, out, lines,
                   mainpc, adminpc, sd, running, history>>

\* _broadcast: `with self.lock: targets = list(self.clients.keys())`
BroadcastSnapshot(c) ==
    /\ running /\ h[c].pc = "bc_snap"
    /\ h' = IF clients_keys = <<>>
            THEN [h EXCEPT ![c].pc = h[c].ret, ![c].ret = "-", ![c].line = <<>>,
                           ![c].holds = FALSE]
            ELSE [h EXCEPT ![c].pc = "bc_send", ![c].targets = clients_keys,
                           ![c].ti = 1, ![c].holds = FALSE]
    /\ UNCHANGED <<env, notices, registry, stop_event, server_sock, sock, inflight, out, lines,
                   mainpc, adminpc, sd, running, history>>

\* A broadcast whose failed write ends the handler's loop.
BroadcastSendRaising(c) ==
    /\ running /\ h[c].pc = "bc_send"
    /\ out' = SendLine(out, c, h[c].targets[h[c].ti], h[c].line)
    /\ h' = IF sock[h[c].targets[h[c].ti]] # "open"
            THEN [h EXCEPT ![c].pc = "cleanup", ![c].ret = "-", ![c].line = <<>>,
                           ![c].targets = <<>>, ![c].ti = 0]
            ELSE IF h[c].ti = Len(h[c].targets)
            THEN [h EXCEPT ![c].pc = h[c].ret, ![c].ret = "-", ![c].line = <<>>,
                           ![c].targets = <<>>, ![c].ti = 0]
            ELSE [h EXCEPT ![c].ti = @ + 1]
    /\ UNCHANGED <<env, notices, registry, stop_event, server_sock, sock, inflight, lines, mainpc,
                   adminpc, sd, running, history>>

\* _broadcast: `self._send_line(sock, line)` for the next target; after the
\* last one the call returns.
BroadcastSend(c) ==
    /\ running /\ h[c].pc = "bc_send"
    /\ out' = SendLine(out, c, h[c].targets[h[c].ti], h[c].line)
    /\ h' = IF h[c].ti = Len(h[c].targets)
            THEN [h EXCEPT ![c].pc = h[c].ret, ![c].ret = "-", ![c].line = <<>>,
                           ![c].targets = <<>>, ![c].ti = 0]
            ELSE [h EXCEPT ![c].ti = @ + 1]
    /\ UNCHANGED <<env, notices, registry, stop_event, server_sock, sock, inflight, lines, mainpc,
                   adminpc, sd, running, history>>

\* The two help lines.
Help1(c) ==
    /\ running /\ h[c].pc = "help1"
    /\ out' = SendLine(out, c, c, HELP1)
    /\ h' = [h EXCEPT ![c].issued = Append(@, HELP1),
                      ![c].pc = "help2"]
    /\ UNCHANGED <<env, notices, registry, stop_event, server_sock, sock, inflight, lines, mainpc,
                   adminpc, sd, running, history>>

Help2(c) ==
    /\ running /\ h[c].pc = "help2"
    /\ out' = SendLine(out, c, c, HELP2)
    /\ h' = [h EXCEPT ![c].issued = Append(@, HELP2),
                      ![c].pc = "recv"]
    /\ UNCHANGED <<env, notices, registry, stop_event, server_sock, sock, inflight, lines, mainpc,
                   adminpc, sd, running, history>>

\* A recv on this socket can return what the peer does: the socket is open,
\* or it was closed under a recv that is still in progress.
CanRecv(c) == sock[c] = "open" \/ c \in inflight

\* The parts of a whisper command: raw_cmd.split(' ', 2).
Parts(msg) == Split(msg, 2)
\* A test of the number of parts alone.
WellFormedLength(msg) == Len(Parts(msg)) = 3

WellFormed(msg) ==
    /\ Len(Parts(msg)) = 3
    /\ Parts(msg)[2] # <<>>
    /\ Parts(msg)[3] # <<>>

\* A dispatch that takes every chunk beginning with the quit keyword for it.
DispatchQuitPrefix(msg) ==
    IF msg = <<>> THEN "recv"
    ELSE IF StartsWith(msg, QUIT) THEN "quit_send"
    ELSE IF StartsWith(msg, WPREFIX)
         THEN IF WellFormed(msg) THEN "w_lookup" ELSE "w_usage"
    ELSE "chat_nick"

\* A loop body without the `if not msg: continue` of lines 69-70.
DispatchBlankAsChat(msg) ==
    IF msg = QUIT THEN "quit_send"
    ELSE IF StartsWith(msg, WPREFIX)
         THEN IF WellFormed(msg) THEN "w_lookup" ELSE "w_usage"
    ELSE "chat_nick"

\* Where the loop body goes with the stripped chunk msg (lines 68-80).
Dispatch(msg) ==
    IF msg = <<>> THEN "recv"
    ELSE IF msg = QUIT THEN "quit_send"
    ELSE IF StartsWith(msg, WPREFIX)
         THEN IF WellFormed(msg) THEN "w_lookup" ELSE "w_usage"
    ELSE "chat_nick"

\* `data = client_sock.recv(1024)` returns a chunk; it is decoded, stripped
\* and dispatched.
LoopRecv(c) ==
    /\ running /\ h[c].pc = "recv" /\ CanRecv(c)
    /\ lines < env.maxlines
    /\ \E data \in env.chunks :
           h' = [h EXCEPT ![c].pc = Dispatch(Strip(data)),
                          ![c].msg = IF Dispatch(Strip(data)) = "recv" THEN <<>>
                                     ELSE Strip(data)]
    /\ lines' = lines + 1
    /\ inflight' = inflight \ {c}
    /\ UNCHANGED <<env, notices, registry, stop_event, server_sock, sock, out, mainpc, adminpc, sd,
                   running, history>>

\* recv returns b'' (the peer closed): `break`.
LoopEOF(c) ==
    /\ running /\ h[c].pc = "recv" /\ CanRecv(c)
    /\ h' = [h EXCEPT ![c].pc = "cleanup"]
    /\ inflight' = inflight \ {c}
    /\ UNCHANGED <<env, notices, registry, stop_event, server_sock, sock, out, lines, mainpc,
                   adminpc, sd, running, history>>

\* recv raises ConnectionResetError: `except ConnectionResetError: pass`.
LoopReset(c) ==
    /\ running /\ h[c].pc = "recv" /\ CanRecv(c)
    /\ h' = [h EXCEPT ![c].pc = "cleanup"]
    /\ inflight' = inflight \ {c}
    /\ UNCHANGED <<env, notices, registry, stop_event, server_sock, sock, out, lines, mainpc,
                   adminpc, sd, running, history>>

\* recv on the socket closed by _shutdown raises OSError (the call began after
\* the close, or the platform ends a call in progress): no except clause
\* takes it, `finally` runs and the thread ends with the exception.
LoopClosed(c) ==
    /\ running /\ h[c].pc = "recv" /\ sock[c] = "closed"
    /\ h' = [h EXCEPT ![c].pc = "cleanup"]
    /\ inflight' = inflight \ {c}
    /\ UNCHANGED <<env, notices, registry, stop_event, server_sock, sock, out, lines,
                   mainpc, adminpc, sd, running, history>>

\* `if msg == QUIT: self._send_line(client_sock, CLOSING); break`
QuitSend(c) ==
    /\ running /\ h[c].pc = "quit_send"
    /\ out' = SendLine(out, c, c, CLOSING)
    /\ h' = [h EXCEPT ![c].issued = Append(@, CLOSING),
                      ![c].pc = "cleanup", ![c].msg = <<>>]
    /\ UNCHANGED <<env, notices, registry, stop_event, server_sock, sock, inflight, lines, mainpc,
                   adminpc, sd, running, history>>

\* `sender = self._get_nickname(client_sock)`; None: `break`; otherwise the
\* call of `self._broadcast(ChatLine(sender, msg))`.
ChatNickname(c) ==
    /\ running /\ h[c].pc = "chat_nick"
    /\ h' = IF GetNickname(c) = NoNick
            THEN [h EXCEPT ![c].pc = "cleanup", ![c].msg = <<>>, ![c].holds = FALSE]
            ELSE [h EXCEPT ![c].pc = "bc_snap", ![c].ret = "recv", ![c].msg = <<>>,
                           ![c].holds = FALSE,
                           ![c].issued = Append(@, ChatLine(GetNickname(c), h[c].msg)),
                           ![c].line = ChatLine(GetNickname(c), h[c].msg)]
    /\ UNCHANGED <<env, notices, registry, stop_event, server_sock, sock, inflight, out, lines,
                   mainpc, adminpc, sd, running, history>>

\* _handle_whisper, a command with fewer than three parts or an empty part:
\* the usage line goes to the sender.
WhisperUsage(c) ==
    /\ running /\ h[c].pc = "w_usage"
    /\ out' = SendLine(out, c, c, USAGE)
    /\ h' = [h EXCEPT ![c].issued = Append(@, USAGE),
                      ![c].pc = "recv", ![c].msg = <<>>]
    /\ UNCHANGED <<env, notices, registry, stop_event, server_sock, sock, inflight, lines, mainpc,
                   adminpc, sd, running, history>>

\* `with self.lock: target_sock = self.nick_map.get(target_nick)`
WhisperLookup(c) ==
    /\ running /\ h[c].pc = "w_lookup"
    /\ h' = [h EXCEPT ![c].pc = "w_nick", ![c].holds = FALSE,
                      ![c].target_sock = Get(nick_map, Parts(h[c].msg)[2], NoSock)]
    /\ UNCHANGED <<env, notices, registry, stop_event, server_sock, sock, inflight, out, lines,
                   mainpc, adminpc, sd, running, history>>

\* `sender_nick = self._get_nickname(sender_sock) or UNKNOWN_NICK`
WhisperNickname(c) ==
    /\ running /\ h[c].pc = "w_nick"
    /\ h' = [h EXCEPT ![c].pc = IF h[c].target_sock = NoSock THEN "w_notfound"
                                ELSE "w_target",
                      ![c].holds = FALSE,
                      ![c].sender_nick = IF GetNickname(c) = NoNick THEN UNKNOWN_NICK
                                         ELSE GetNickname(c)]
    /\ UNCHANGED <<env, notices, registry, stop_event, server_sock, sock, inflight, out, lines,
                   mainpc, adminpc, sd, running, history>>

\* A whisper to an unknown nickname that is dropped without a reply.
WhisperNotFoundSilent(c) ==
    /\ running /\ h[c].pc = "w_notfound"
    /\ h' = [h EXCEPT ![c].pc = "recv", ![c].msg = <<>>, ![c].sender_nick = NoNick]
    /\ UNCHANGED <<env, notices, registry, stop_event, server_sock, sock, inflight, out, lines,
                   mainpc, adminpc, sd, running, history>>

\* `if target_sock is None:` the not-found line goes to the sender.
WhisperNotFound(c) ==
    /\ running /\ h[c].pc = "w_notfound"
    /\ out' = SendLine(out, c, c, NotFoundLine(Parts(h[c].msg)[2]))
    /\ h' = [h EXCEPT ![c].issued = Append(@, NotFoundLine(Parts(h[c].msg)[2])),
                      ![c].pc = "recv", ![c].msg = <<>>, ![c].sender_nick = NoNick]
    /\ UNCHANGED <<env, notices, registry, stop_event, server_sock, sock, inflight, lines, mainpc,
                   adminpc, sd, running, history>>

\* `self._send_line(target_sock, WhisperLine(sender_nick, message))`
WhisperTarget(c) ==
    /\ running /\ h[c].pc = "w_target"
    /\ out' = SendLine(out, c, h[c].target_sock,
                       WhisperLine(h[c].sender_nick, Parts(h[c].msg)[3]))
    /\ h' = [h EXCEPT ![c].issued = Append(@, WhisperLine(h[c].sender_nick, Parts(h[c].msg)[3])),
                      ![c].pc = "w_sender"]
    /\ UNCHANGED <<env, notices, registry, stop_event, server_sock, sock, inflight, lines, mainpc,
                   adminpc, sd, running, history>>

\* `self._send_line(sender_sock, WhisperSentLine(sender_nick, target_nick, message))`
WhisperSender(c) ==
    /\ running /\ h[c].pc = "w_sender"
    /\ out' = SendLine(out, c, c,
                       WhisperSentLine(h[c].sender_nick, Parts(h[c].msg)[2],
                                       Parts(h[c].msg)[3]))
    /\ h' = [h EXCEPT ![c].issued = Append(@, WhisperSentLine(h[c].sender_nick, Parts(h[c].msg)[2], Parts(h[c].msg)[3])),
                      ![c].pc = "recv", ![c].msg = <<>>, ![c].sender_nick = NoNick,
                      ![c].target_sock = NoSock]
    /\ UNCHANGED <<env, notices, registry, stop_event, server_sock, sock, inflight, lines, mainpc,
                   adminpc, sd, running, history>>

\* A removal that announces the leave whether a nickname was removed or not.
CleanupAlwaysLeave(c) ==
    /\ running /\ h[c].pc = "cleanup"
    /\ RemoveClient(c)
    /\ cleanups' = [cleanups EXCEPT ![c] = @ + 1]
    /\ h' = [h EXCEPT ![c].pc = "bc_snap", ![c].ret = "close",
                      ![c].holds = FALSE,
                      ![c].issued = Append(@, LeaveLine(Get(clients, c, NoNick))),
                      ![c].line = LeaveLine(Get(clients, c, NoNick))]
    /\ leaves' = [leaves EXCEPT ![c] = @ + 1]
    /\ UNCHANGED <<env, notices, stop_event, server_sock, sock, inflight, out, lines, mainpc, adminpc,
                   sd, running, lateAccepts>>

\* `finally: self._remove_client(client_sock)`: the locked removal, then for a
\* removed nickname the call of `self._broadcast(LeaveLine(nickname))`.
Cleanup(c) ==
    /\ running /\ h[c].pc = "cleanup"
    /\ RemoveClient(c)
    /\ cleanups' = [cleanups EXCEPT ![c] = @ + 1]
    /\ IF Get(clients, c, NoNick) # NoNick
       THEN /\ h' = [h EXCEPT ![c].pc = "bc_snap", ![c].ret = "close",
                              ![c].holds = FALSE,
                              ![c].issued = Append(@, LeaveLine(clients[c])),
                              ![c].line = LeaveLine(clients[c])]
            /\ leaves' = [leaves EXCEPT ![c] = @ + 1]
       ELSE /\ h' = [h EXCEPT ![c].pc = "close", ![c].holds = FALSE]
            /\ leaves' = leaves
    /\ UNCHANGED <<env, notices, stop_event, server_sock, sock, inflight, out, lines, mainpc, adminpc,
                   sd, running, lateAccepts>>

\* _remove_client: `client_sock.close()`; the handler thread ends.
Close(c) ==
    /\ running /\ h[c].pc = "close"
    /\ CloseSock(c)
    /\ h' = [h EXCEPT ![c].pc = "done"]
    /\ UNCHANGED <<env, notices, registry, stop_event, server_sock, inflight, out, lines, mainpc,
                   adminpc, sd, running, history>>

\* One more call of _remove_client for a connection whose handler has ended.
RemoveAgain(c) ==
    /\ running /\ h[c].pc = "done" /\ cleanups[c] < MaxRemoves
    /\ h' = [h EXCEPT ![c].pc = "cleanup"]
    /\ UNCHANGED <<env, notices, registry, stop_event, server_sock, sock, inflight, out, lines,
                   mainpc, adminpc, sd, running, history>>

\* ------------------------------------------------------ the registry lock
\* The positions of a handler in front of or inside a `with self.lock:` block
\* (lines 108, 119, 125, 138, 154, 167), and between the two updates of
\* _register_client and of _remove_client.
LockPcs == {"hs_unique", "register", "bc_snap", "chat_nick", "w_lookup", "w_nick", "cleanup"}
MidPcs == {"register2", "cleanup2"}

\* threading.Lock: nobody is inside a block.
LockFree ==
    /\ \A c \in Conns : ~h[c].holds
    /\ \A t \in Threads : ~sd[t].holds

\* `with self.lock:` is entered by a handler: the lock is acquired when free.
Acquire(c) ==
    /\ running /\ h[c].pc \in LockPcs /\ ~h[c].holds
    /\ LockFree
    /\ h' = [h EXCEPT ![c].holds = TRUE]
    /\ UNCHANGED <<env, notices, registry, stop_event, server_sock, sock, inflight, out, lines,
                   mainpc, adminpc, sd, running, history>>

\* `with self.lock:` is entered by _shutdown.
ShutdownAcquire(t) ==
    /\ running /\ sd[t].pc = "snapshot" /\ ~sd[t].holds
    /\ LockFree
    /\ sd' = [sd EXCEPT ![t].holds = TRUE]
    /\ UNCHANGED <<env, notices, registry, stop_event, server_sock, sock, inflight, h, out, lines,
                   mainpc, adminpc, running, history>>

\* A registration that leaves the block after its first statement.
RegisterClientsUnlocked(c) ==
    /\ running /\ h[c].pc = "register"
    /\ clients' = Put(clients, c, h[c].nickname)
    /\ clients_keys' = IF c \in DOMAIN clients THEN clients_keys
                       ELSE Append(clients_keys, c)
    /\ nick_map' = nick_map
    /\ h' = [h EXCEPT ![c].pc = "register2", ![c].holds = FALSE]
    /\ UNCHANGED <<env, notices, stop_event, server_sock, sock, inflight, out, lines, mainpc,
                   adminpc, sd, running, history>>

\* _register_client, inside the block: `self.clients[client_sock] = nickname`
RegisterClients(c) ==
    /\ running /\ h[c].pc = "register"
    /\ clients' = Put(clients, c, h[c].nickname)
    /\ clients_keys' = IF c \in DOMAIN clients THEN clients_keys
                       ELSE Append(clients_keys, c)
    /\ nick_map' = nick_map
    /\ h' = [h EXCEPT ![c].pc = "register2"]
    /\ UNCHANGED <<env, notices, stop_event, server_sock, sock, inflight, out, lines, mainpc,
                   adminpc, sd, running, history>>

\* `self.nick_map[nickname] = client_sock`, the end of the block, and the
\* call of `self._broadcast(JoinLine(nickname))`.
RegisterNickMap(c) ==
    /\ running /\ h[c].pc = "register2"
    /\ nick_map' = Put(nick_map, h[c].nickname, c)
    /\ UNCHANGED <<clients, clients_keys>>
    /\ h' = [h EXCEPT ![c].pc = "bc_snap", ![c].line = JoinLine(h[c].nickname),
                      ![c].holds = FALSE,
                      ![c].issued = Append(@, JoinLine(h[c].nickname)),
                      ![c].ret = "help1"]
    /\ UNCHANGED <<env, notices, stop_event, server_sock, sock, inflight, out, lines, mainpc,
                   adminpc, sd, running, history>>

\* _remove_client, inside the block: `nickname = self.clients.pop(client_sock, None)`
RemovePopClients(c) ==
    /\ running /\ h[c].pc = "cleanup"
    /\ clients' = Del(clients, c)
    /\ clients_keys' = SeqRemove(clients_keys, c)
    /\ nick_map' = nick_map
    /\ cleanups' = [cleanups EXCEPT ![c] = @ + 1]
    /\ h' = [h EXCEPT ![c].pc = "cleanup2", ![c].popped = Get(clients, c, NoNick)]
    /\ UNCHANGED <<env, notices, stop_event, server_sock, sock, inflight, out, lines, mainpc,
                   adminpc, sd, running, leaves, lateAccepts>>

\* `if nickname: self.nick_map.pop(nickname, None)`, the end of the block,
\* and for a removed nickname the call of `self._broadcast(LeaveLine(nickname))`.
RemovePopNickMap(c) ==
    /\ running /\ h[c].pc = "cleanup2"
    /\ nick_map' = IF h[c].popped # NoNick THEN Del(nick_map, h[c].popped) ELSE nick_map
    /\ UNCHANGED <<clients, clients_keys>>
    /\ IF h[c].popped # NoNick
       THEN /\ h' = [h EXCEPT ![c].pc = "bc_snap", ![c].ret = "close",
                              ![c].holds = FALSE, ![c].popped = NoNick,
                              ![c].issued = Append(@, LeaveLine(h[c].popped)),
                              ![c].line = LeaveLine(h[c].popped)]
            /\ leaves' = [leaves EXCEPT ![c] = @ + 1]
       ELSE /\ h' = [h EXCEPT ![c].pc = "close", ![c].holds = FALSE]
            /\ leaves' = leaves
    /\ UNCHANGED <<env, notices, stop_event, server_sock, sock, inflight, out, lines, mainpc,
                   adminpc, sd, running, cleanups, lateAccepts>>

\* The steps of a handler inside a block of the lock.
LockedStep(c) ==
    /\ h[c].holds
    /\ \/ HandshakeUnique(c)
       \/ RegisterClients(c)
       \/ RegisterNickMap(c)
       \/ BroadcastSnapshot(c)
       \/ RemovePopClients(c)
       \/ RemovePopNickMap(c)

\* The steps of a handler outside the blocks: socket calls.
UnlockedStep(c) ==
    \/ HandshakePrompt(c)
    \/ HandshakeRecv(c)
    \/ HandshakeAbort(c)
    \/ HandshakeFailClose(c)
    \/ HandshakeConfirm(c)
    \/ Help1(c)
    \/ Help2(c)
    \/ BroadcastSend(c)
    \/ LoopEOF(c)
    \/ LoopClosed(c)
    \/ Close(c)

\* _shutdown of the main thread with the lock.
LockedShutdown ==
    \/ ShutdownAcquire("main")
    \/ sd["main"].holds /\ ShutdownSnapshot("main")
    \/ ShutdownSend("main")
    \/ ShutdownClose("main")
    \/ ShutdownListener("main")

\* The handshake up to the help lines.
Handshake(c) ==
    \/ HandshakePrompt(c)
    \/ HandshakeRecv(c)
    \/ HandshakeAbort(c)
    \/ HandshakeFailClose(c)
    \/ HandshakeUnique(c)
    \/ HandshakeConfirm(c)
    \/ Register(c)
    \/ Help1(c)
    \/ Help2(c)

\* _broadcast, for the join and leave announcements and the chat lines.
Broadcast(c) ==
    \/ BroadcastSnapshot(c)
    \/ BroadcastSend(c)

\* The end of a session by the peer, and the clean-up.
SessionEnd(c) ==
    \/ LoopEOF(c)
    \/ LoopReset(c)
    \/ Cleanup(c)
    \/ Close(c)

\* The quit command and chat lines.
Chat(c) ==
    \/ LoopRecv(c)
    \/ QuitSend(c)
    \/ ChatNickname(c)

\* Whisper commands.
Whisper(c) ==
    \/ WhisperUsage(c)
    \/ WhisperLookup(c)
    \/ WhisperNickname(c)
    \/ WhisperNotFound(c)
    \/ WhisperTarget(c)
    \/ WhisperSender(c)

\* The accept loop of the main thread.
Acceptor ==
    \/ StartCheck
    \/ StartAccept
    \/ StartTimeout

\* The main thread leaving the accept loop on an interrupt and shutting down.
MainShutdown ==
    \/ StartInterrupt
    \/ StartFinally
    \/ MainReturn
    \/ Shutdown("main")

\* The admin console and its shutdown.
Admin ==
    \/ AdminQuit
    \/ AdminOther
    \/ AdminEOF
    \/ StartAcceptError
    \/ Shutdown("admin")

HandleClient(c) ==
    \/ Handshake(c)
    \/ Broadcast(c)
    \/ SessionEnd(c)
    \/ LoopClosed(c)
    \/ Chat(c)
    \/ Whisper(c)

\* The complete server.
Next ==
    \/ Acceptor
    \/ MainShutdown
    \/ Admin
    \/ \E c \in Conns : HandleClient(c)

Spec == Init /\ [][Next]_vars

\* The steps the main thread takes by itself: the loop check, the return of
\* accept() (a connection, the timeout, or the error on the closed socket),
\* the finally clause, its _shutdown and its return.  The interrupt is not
\* among them.
MainStep ==
    \/ StartCheck
    \/ StartAccept
    \/ StartTimeout
    \/ StartAcceptError
    \/ StartFinally
    \/ Shutdown("main")
    \/ MainReturn

\* The steps a handler thread takes by itself; the returns of recv that need
\* the peer to send or to close are not among them.
HandlerStep(c) ==
    \/ HandshakePrompt(c)
    \/ HandshakeFailClose(c)
    \/ HandshakeUnique(c)
    \/ HandshakeConfirm(c)
    \/ Register(c)
    \/ Help1(c)
    \/ Help2(c)
    \/ Broadcast(c)
    \/ QuitSend(c)
    \/ ChatNickname(c)
    \/ Whisper(c)
    \/ Cleanup(c)
    \/ Close(c)
    \/ LoopClosed(c)

\* The complete server with threads that go on as long as the process lives:
\* every thread that can take a step by itself eventually takes it.
SpecLive ==
    /\ Init /\ [][Next]_vars
    /\ WF_vars(MainStep)
    /\ WF_vars(Shutdown("admin"))
    /\ \A c \in Conns : WF_vars(HandlerStep(c))

\* The server without the admin console and without whisper commands.
NextPeers ==
    \/ Acceptor
    \/ MainShutdown
    \/ \E c \in Conns :
           Handshake(c) \/ Broadcast(c) \/ SessionEnd(c) \/ LoopClosed(c) \/ Chat(c)

SpecPeers == InitPeers /\ [][NextPeers]_vars

\* The registry operations: handshakes, the peers' exits, and repeated calls
\* of _remove_client.
NextRegistry ==
    \/ Acceptor
    \/ \E c \in Conns :
           Handshake(c) \/ Broadcast(c) \/ SessionEnd(c) \/ RemoveAgain(c)

SpecRegistry == InitPeers /\ [][NextRegistry]_vars

\* The established sessions: chat lines, commands and the peers' exits.
NextChat ==
    \E c \in Conns : Broadcast(c) \/ SessionEnd(c) \/ Chat(c) \/ Whisper(c)

SpecChat == InitChat /\ [][NextChat]_vars

\* The server with its lock: the acceptor, the interrupt and the shutdown of
\* the main thread, and the handlers.
NextLock ==
    \/ Acceptor
    \/ StartInterrupt
    \/ StartFinally
    \/ MainReturn
    \/ LockedShutdown
    \/ \E c \in Conns : Acquire(c) \/ LockedStep(c) \/ UnlockedStep(c)

SpecLock == InitLock /\ [][NextLock]_vars

\* The server with its lock and threads that go on: a thread that can enter
\* a block of the lock, or go on inside one, eventually does.
SpecLockLive ==
    /\ InitLock /\ [][NextLock]_vars
    /\ \A c \in Conns : WF_vars(Acquire(c)) /\ WF_vars(LockedStep(c))
    /\ WF_vars(ShutdownAcquire("main"))
    /\ WF_vars(sd["main"].holds /\ ShutdownSnapshot("main"))

\* Two peers A (connection 1) and B (connection 2) that act one after the
\* other: A sends its nickname, B sends the same one when A's handshake is
\* over, A sends a chat line, B whispers to A, A quits; each sends its line
\* when the handlers wait in recv.  A further peer may connect at any time; it
\* never sends its nickname.  The server's threads run as they like.
NextScenario ==
    \/ Acceptor
    \/ HandshakeRecv(1)
    \/ h[1].pc = "recv" /\ HandshakeRecv(2)
    \/ lines = 0 /\ h[2].pc = "recv" /\ LoopRecv(1) /\ h'[1].msg = Strip(CHAT_HI)
    \/ lines = 1 /\ h[1].pc = "recv" /\ LoopRecv(2) /\ h'[2].msg = Strip(WHISPER_A)
    \/ lines = 2 /\ h[2].pc = "recv" /\ LoopRecv(1) /\ h'[1].msg = Strip(QUIT_CMD)
    \/ \E c \in Conns :
           \/ HandshakePrompt(c) \/ HandshakeUnique(c) \/ HandshakeConfirm(c)
           \/ Register(c) \/ Help1(c) \/ Help2(c)
           \/ Broadcast(c)
           \/ ChatNickname(c) \/ QuitSend(c)
           \/ WhisperLookup(c) \/ WhisperNickname(c) \/ WhisperTarget(c) \/ WhisperSender(c)
           \/ Cleanup(c) \/ Close(c)

SpecScenario == InitScenario /\ [][NextScenario]_vars

\* The message loops without whispers.
NextStream ==
    \E c \in Conns : Broadcast(c) \/ SessionEnd(c) \/ Chat(c)

SpecStream == InitStream /\ [][NextStream]_vars

\* Accepts, handshakes and well-formed whispers of sessions that stay.
NextNames ==
    \/ Acceptor
    \/ \E c \in Conns :
           \/ HandshakePrompt(c) \/ HandshakeRecv(c) \/ HandshakeUnique(c)
           \/ HandshakeConfirm(c) \/ Register(c) \/ Help1(c) \/ Help2(c)
           \/ Broadcast(c)
           \/ LoopRecv(c)
           \/ WhisperLookup(c) \/ WhisperNickname(c) \/ WhisperNotFound(c)
           \/ WhisperTarget(c) \/ WhisperSender(c)

SpecNames == InitNames /\ [][NextNames]_vars

\* The way to the established sessions: accepts and handshakes.
NextJoin ==
    \/ Acceptor
    \/ \E c \in Conns : Handshake(c) \/ Broadcast(c)

SpecJoin == InitJoin /\ [][NextJoin]_vars
\* SpecJoin violates this: Established is reached from the construction.
NotEstablished == ~Established

\* ------------------------------------------------------------------ claims
\* C1: in every reachable state no two live sessions (entries of the
\* connection -> nickname map) share a nickname, however the handshakes that
\* ask for the same base name interleave.
NicknamesDistinct ==
    \A c, d \in DOMAIN clients : c # d => clients[c] # clients[d]

\* C2: registry bijectivity in every reachable state: nick_map sends
\* clients[c] back to c for every connection c of clients, and clients sends
\* nick_map[n] back to n for every nickname n of nick_map.
RegistryBijective ==
    /\ \A c \in DOMAIN clients :
           clients[c] \in DOMAIN nick_map /\ nick_map[clients[c]] = c
    /\ \A n \in DOMAIN nick_map :
           nick_map[n] \in DOMAIN clients /\ clients[nick_map[n]] = n

\* The invocations of _shutdown that have gone past the flag and taken their
\* snapshot of the registered connections.
Draining == { t \in Threads : sd[t].pc \notin {"idle", "snapshot"} }

\* C3: shutdown is idempotent: over the whole execution the drain sequence
\* (snapshot, notice, close, listener) is run by at most one invocation of
\* _shutdown, and no connection is sent the termination notice twice.
DrainsAtMostOnce ==
    /\ Cardinality(Draining) <= 1
    /\ \A d \in Conns :
           Len(notices[d]["main"]) + Len(notices[d]["admin"]) <= 1

\* C4: the order of the steps of _shutdown.  Every step of an invocation
\* leaves the flag set, and its first step changes nothing else; the snapshot
\* is the registered connections of that moment, taken before any notice or
\* close; a notice is written only to the connection the drain has arrived at;
\* a connection is closed by the drain only after the notice was written to
\* it; the listener is closed only after every snapshot connection was
\* processed and is closed.
ShutdownOrder ==
    [][\A t \in Threads : sd'[t] # sd[t] =>
          /\ stop_event'
          /\ sd[t].pc \in {"idle", "snapshot"} =>
                 /\ sock' = sock /\ notices' = notices /\ server_sock' = server_sock
          /\ sd[t].pc = "snapshot" => sd'[t].targets = clients_keys /\ sd'[t].ti = 1
          /\ sd[t].pc \in {"send", "close"} =>
                 /\ sd[t].ti \in 1..Len(sd[t].targets)
                 /\ sd'[t].targets = sd[t].targets
                 /\ sd'[t].ti \in {sd[t].ti, sd[t].ti + 1}
          /\ \A d \in Conns :
                 /\ notices'[d] # notices[d] =>
                        /\ sd[t].pc = "send" /\ d = sd[t].targets[sd[t].ti]
                        /\ notices'[d] = [notices[d] EXCEPT ![t] = <<NOTICE>>]
                 /\ sock'[d] # sock[d] =>
                        /\ sd[t].pc = "close" /\ d = sd[t].targets[sd[t].ti]
                        /\ notices[d][t] = <<NOTICE>>
                        /\ sd'[t].ti = sd[t].ti + 1
          /\ server_sock' # server_sock =>
                 /\ sd[t].ti = Len(sd[t].targets) + 1
                 /\ \A k \in 1..Len(sd[t].targets) : sock[sd[t].targets[k]] = "closed"
      ]_vars

\* C4, its case: a shutdown has sent the notice to two registered connections,
\* closed both and then closed the listener.
ShutdownOrderCase ==
    \E t \in Threads :
        /\ sd[t].pc = "done" /\ Len(sd[t].targets) = 2
        /\ \A k \in 1..2 : notices[sd[t].targets[k]][t] = <<NOTICE>>
        /\ server_sock = "closed"

\* C5 as stated: no connection is accepted in a state in which the shutdown
\* flag is set.
NoAcceptAfterFlag ==
    [][stop_event => \A c \in Conns : sock[c] = "none" => sock'[c] = "none"]_vars

\* C5, amended: the acceptor goes from a loop check into accept() only with
\* the flag unset; a connection is accepted only by the acceptor inside
\* accept(), one at a time; an accept() that returns a connection while the
\* flag is set is the last one, since the acceptor leaves its loop right after;
\* it never comes back into the loop.  At most one connection is accepted
\* after the flag was set.
AcceptStopsAfterFlag ==
    /\ [](lateAccepts <= 1)
    /\ [][/\ (mainpc = "check" /\ mainpc' = "accept") => ~stop_event
          /\ Accepted' # Accepted =>
                 /\ mainpc = "accept"
                 /\ Cardinality(Accepted') = Cardinality(Accepted) + 1
                 /\ stop_event => mainpc' = "finally"
          /\ mainpc \notin {"check", "accept"} => mainpc' \notin {"check", "accept"}
       ]_vars

\* C5, its case: accept() has returned a connection while the flag was set.
LateAccept ==
    lateAccepts = 1 /\ stop_event /\ \E c \in Conns : h[c].pc = "hs_prompt"

\* C6: once the shutdown run by the acceptor has completed, every connection
\* accepted before it started is closed, the ones in the handshake included.
ShutdownClosesAccepted ==
    sd["main"].pc = "done" => \A c \in Accepted : sock[c] = "closed"

\* The handler of c is in the leave broadcast of _remove_client.
InLeave(c) == h[c].pc \in {"bc_snap", "bc_send"} /\ h[c].ret = "close"

\* The positions of a registered session before `finally`.
SessionPcs ==
    {"bc_snap", "bc_send", "help1", "help2", "recv", "quit_send", "chat_nick",
     "w_usage", "w_lookup", "w_nick", "w_notfound", "w_target", "w_sender"}

\* C7: on every path out of the loop a registered session goes to the removal;
\* the removal takes it out of both maps and is followed by one leave
\* broadcast with the line naming its nickname, whose snapshot is the
\* connections still registered; the close of the connection comes after that
\* broadcast, and the handler ends with the connection closed.
SessionEndOrder ==
    /\ [](\A c \in Conns :
            /\ leaves[c] <= 1
            /\ (InLeave(c) \/ h[c].pc \in {"close", "done"}) =>
                   c \notin DOMAIN clients /\ c \notin Range(nick_map)
            /\ InLeave(c) => leaves[c] = 1 /\ h[c].line = LeaveLine(h[c].nickname)
            /\ (InLeave(c) /\ h[c].pc = "bc_send") => c \notin Range(h[c].targets)
            /\ h[c].pc = "done" => sock[c] = "closed")
    /\ [][\A c \in Conns :
            /\ (c \in DOMAIN clients /\ h[c].pc \in SessionPcs
                  /\ h'[c].pc \notin SessionPcs) => h'[c].pc = "cleanup"
            /\ (c \in DOMAIN clients /\ c \notin DOMAIN clients') =>
                   /\ h[c].pc = "cleanup"
                   /\ h'[c].pc = "bc_snap" /\ h'[c].ret = "close"
                   /\ h'[c].line = LeaveLine(clients[c])
                   /\ leaves'[c] = leaves[c] + 1
            /\ (h[c].pc # "close" /\ h'[c].pc = "close" /\ leaves[c] = 1) =>
                   InLeave(c)
            /\ (h[c].pc = "bc_snap" /\ InLeave(c) /\ h'[c].pc = "bc_send") =>
                   h'[c].targets = clients_keys
       ]_vars

\* C7, its case: a session closed by the shutdown has ended, and its leave
\* announcement was written to another connection.
SessionEndCase ==
    \E c, d \in Conns :
        /\ c # d /\ h[c].pc = "done" /\ leaves[c] = 1
        /\ notices[c]["main"] = <<NOTICE>>
        /\ out[d][c] # <<>>
        /\ out[d][c][Len(out[d][c])] = LeaveLine(h[c].nickname)

\* C8: the handler of a connection calls _remove_client at most once, has
\* called it exactly once when it is past `finally`, and has ended only after
\* that call and with the connection closed, also when the handshake failed
\* and the connection had been closed before.
CleanupOnce ==
    \A c \in Conns :
        /\ cleanups[c] <= 1
        /\ h[c].pc \in {"close", "done"} \/ InLeave(c) => cleanups[c] = 1
        /\ cleanups[c] = 1 => h[c].pc \in {"bc_snap", "bc_send", "close", "done"}
        /\ h[c].pc = "done" => sock[c] = "closed"

\* C8, its case: a handler whose handshake failed has ended; the connection
\* was closed by the failure branch and again by _remove_client.
CleanupOnceCase ==
    \E c \in Conns :
        h[c].pc = "done" /\ h[c].nickname = NoNick /\ cleanups[c] = 1

\* C9: a broadcast takes its targets from the registry at the call, with the
\* sender of a chat line among them; each of its steps writes the exact line
\* to the next connection of that snapshot and to no other connection, nor
\* anything else; the snapshot and the line stay as they are until the last
\* target is written.
BroadcastToSnapshot ==
    /\ [](\A c \in Conns : h[c].pc = "bc_send" =>
            /\ h[c].ti \in 1..Len(h[c].targets)
            /\ \A i, j \in 1..Len(h[c].targets) :
                   i # j => h[c].targets[i] # h[c].targets[j]
            /\ h[c].ret = "recv" => c \in Range(h[c].targets))
    /\ [][\A c \in Conns :
            /\ (h[c].pc = "bc_snap" /\ h'[c] # h[c]) =>
                   /\ out' = out
                   /\ IF clients_keys = <<>> THEN h'[c].pc = h[c].ret
                      ELSE /\ h'[c].pc = "bc_send" /\ h'[c].ti = 1
                           /\ h'[c].targets = clients_keys
                           /\ h'[c].line = h[c].line
            /\ (h[c].pc = "bc_send" /\ h'[c] # h[c]) =>
                   LET d == h[c].targets[h[c].ti]
                   IN  /\ out' = IF sock[d] = "open"
                                 THEN [out EXCEPT ![d][c] = Append(@, h[c].line)]
                                 ELSE out
                       /\ IF h[c].ti < Len(h[c].targets)
                          THEN /\ h'[c].pc = "bc_send" /\ h'[c].ti = h[c].ti + 1
                               /\ h'[c].targets = h[c].targets
                               /\ h'[c].line = h[c].line
                          ELSE h'[c].pc = h[c].ret
       ]_vars

\* C9, its case: while a broadcast is under way, a connection that is not in
\* its snapshot is registered.
BroadcastCase ==
    \E c, d \in Conns :
        /\ h[c].pc = "bc_send" /\ h[c].ti = Len(h[c].targets)
        /\ d \in DOMAIN clients /\ d \notin Range(h[c].targets)

\* The line msg is the whisper command for target with message: "/w ", the
\* target without a space, one space, the message.
IsWhisper(msg, target, message) ==
    /\ msg = <<"/", "w", " ">> \o target \o <<" ">> \o message
    /\ target # <<>> /\ message # <<>>
    /\ \A i \in 1..Len(target) : target[i] # " "

\* The ways to cut msg after its third character into a target, one
\* character and a message.
Cuts(msg) ==
    { <<SubSeq(msg, 4, k - 1), SubSeq(msg, k + 1, Len(msg))>> : k \in 4..Len(msg) }

WhisperPcs == {"w_lookup", "w_nick", "w_target", "w_sender"}

\* C10: a well-formed whisper line is handled as a whisper and by nothing
\* else.  With its target registered at the lookup, the handler writes
\* "(whisper) <sender>> <message>" to the connection nick_map has for the
\* target and then "(whisper sent) <sender> -> <target>: <message>" to the
\* sender's connection, <sender> being the sender's registered nickname and
\* <message> everything after the second space; these two steps write
\* nothing else, and the steps before them write nothing at all.
WhisperDelivery ==
    /\ [](\A c \in Conns : \A tm \in Cuts(h[c].msg) :
            IsWhisper(h[c].msg, tm[1], tm[2]) =>
                h[c].pc \in WhisperPcs \cup {"w_notfound"} /\ c \in DOMAIN clients)
    /\ [][\A c \in Conns : \A tm \in Cuts(h[c].msg) :
            (IsWhisper(h[c].msg, tm[1], tm[2]) /\ h'[c] # h[c]) =>
                /\ h[c].pc = "w_lookup" =>
                       /\ out' = out /\ h'[c].pc = "w_nick"
                       /\ tm[1] \in DOMAIN nick_map =>
                              h'[c].target_sock = nick_map[tm[1]]
                /\ (h[c].pc = "w_nick" /\ h[c].target_sock # NoSock) =>
                       /\ out' = out /\ h'[c].pc = "w_target"
                       /\ h'[c].target_sock = h[c].target_sock
                /\ h[c].pc = "w_target" =>
                       /\ out' = IF sock[h[c].target_sock] = "open"
                                 THEN [out EXCEPT ![h[c].target_sock][c] =
                                          Append(@, <<"(gwissokmal) ">> \o clients[c]
                                                    \o <<">", " ">> \o tm[2])]
                                 ELSE out
                       /\ h'[c].pc = "w_sender" /\ h'[c].msg = h[c].msg
                /\ h[c].pc = "w_sender" =>
                       /\ out' = IF sock[c] = "open"
                                 THEN [out EXCEPT ![c][c] =
                                          Append(@, <<"(gwissokmal jeonsong) ">>
                                                    \o clients[c]
                                                    \o <<" ", "-", ">", " ">> \o tm[1]
                                                    \o <<":", " ">> \o tm[2])]
                                 ELSE out
                       /\ h'[c].pc = "recv"
       ]_vars

\* C10, its case: the session a2 has whispered "h i" to the session a; both
\* lines are written, and the third session got nothing from a2.
WhisperCase ==
    /\ h[2].pc = "recv"
    /\ out[1][2] = <<JoinLine(<<"a", "2">>),
                     <<"(gwissokmal) ", "a", "2", ">", " ", "h", " ", "i">>>>
    /\ out[2][2][Len(out[2][2])] =
           <<"(gwissokmal jeonsong) ", "a", "2", " ", "-", ">", " ", "a", ":", " ",
             "h", " ", "i">>
    /\ out[3][2] = <<>>

\* C11: a well-formed whisper whose target is no key of nick_map at the
\* lookup is answered by one line, the not-found reply naming the target,
\* written to the sender's connection; no step of its handling writes
\* anything else or changes the registry, and the handler is back at its recv
\* afterwards with the session registered.
WhisperUnknownTarget ==
    [][\A c \in Conns : \A tm \in Cuts(h[c].msg) :
          (IsWhisper(h[c].msg, tm[1], tm[2]) /\ h'[c] # h[c]) =>
              /\ registry' = registry
              /\ (h[c].pc = "w_lookup" /\ tm[1] \notin DOMAIN nick_map) =>
                     out' = out /\ h'[c].pc = "w_nick" /\ h'[c].target_sock = NoSock
              /\ (h[c].pc = "w_nick" /\ h[c].target_sock = NoSock) =>
                     out' = out /\ h'[c].pc = "w_notfound" /\ h'[c].msg = h[c].msg
              /\ h[c].pc = "w_notfound" =>
                     /\ out' = IF sock[c] = "open"
                               THEN [out EXCEPT ![c][c] =
                                        Append(@, <<"daesang [">> \o tm[1] \o
                                          <<"]eul(reul) chajeul su eobsseubnida.">>)]
                               ELSE out
                     /\ h'[c].pc = "recv" /\ c \in DOMAIN clients'
      ]_vars

\* C11, its case: the session a has whispered to z, a nickname nobody has;
\* the reply is the last line on its connection and nobody else got a line.
WhisperUnknownCase ==
    /\ h[1].pc = "recv" /\ lines = 1 /\ 1 \in DOMAIN clients
    /\ out[1][1][Len(out[1][1])] =
           <<"daesang [", "z", "]eul(reul) chajeul su eobsseubnida.">>
    /\ out[2][1] = <<>> /\ out[3][1] = <<>>

\* The line msg begins like a whisper command but is none: no target, or
\* no message after the target.
IsMalformedWhisper(msg) ==
    /\ Len(msg) >= 3 /\ SubSeq(msg, 1, 3) = <<"/", "w", " ">>
    /\ \A tm \in Cuts(msg) : ~IsWhisper(msg, tm[1], tm[2])

\* C12: a line that begins with "/w " but has no target or no message is
\* answered by one line, the usage reply, written to the sender's connection;
\* the handler does nothing else with it: no lookup, no delivery, no
\* broadcast, no change of the registry, and it is back at its recv
\* afterwards with the session registered.
WhisperMalformed ==
    /\ [](\A c \in Conns : IsMalformedWhisper(h[c].msg) => h[c].pc = "w_usage")
    /\ [][\A c \in Conns :
            (IsMalformedWhisper(h[c].msg) /\ h'[c] # h[c]) =>
                /\ registry' = registry
                /\ out' = IF sock[c] = "open"
                          THEN [out EXCEPT ![c][c] =
                                   Append(@, <<"hyeongsik: /w daesangnick mesiji">>)]
                          ELSE out
                /\ h'[c].pc = "recv" /\ h'[c].msg = <<>>
                /\ c \in DOMAIN clients'
       ]_vars

\* C12, its case: the session a has sent a whisper without a target or
\* without a message; the usage reply is the last line on its connection and
\* nobody else got a line.
WhisperMalformedCase ==
    /\ h[1].pc = "recv" /\ lines = 1 /\ 1 \in DOMAIN clients
    /\ out[1][1][Len(out[1][1])] = <<"hyeongsik: /w daesangnick mesiji">>
    /\ out[2][1] = <<>> /\ out[3][1] = <<>>

\* C13: the step of _make_unique_nickname returns the base when the base is
\* no key of nick_map, and otherwise the base followed by the smallest i >= 2
\* for which base+i is no key of nick_map; what it returns is no key of
\* nick_map in that step, and the step leaves the registry as it is.
GenerateUnique ==
    [][\A c \in Conns :
          (h[c].pc = "hs_unique" /\ h'[c] # h[c]) =>
              LET base == h[c].raw
                  name == h'[c].nickname
              IN  /\ registry' = registry
                  /\ name \notin DOMAIN nick_map
                  /\ base \notin DOMAIN nick_map => name = base
                  /\ base \in DOMAIN nick_map =>
                         \E i \in 2..(Cardinality(DOMAIN nick_map) + 1) :
                             /\ name = base \o Str(i)
                             /\ \A j \in 2..(i - 1) :
                                    base \o Str(j) \in DOMAIN nick_map
      ]_vars

\* C13, its case: with a and a3 registered, a handshake for the base a was
\* given a2.
GenerateUniqueCase ==
    \E c \in Conns :
        /\ h[c].pc = "hs_confirm" /\ h[c].nickname = <<"a", "2">>
        /\ DOMAIN nick_map = {<<"a">>, <<"a", "3">>}

\* C14: a call of _remove_client for a connection that is not in clients
\* (never registered, or removed before) leaves both maps as they are, writes
\* nothing, announces nothing and goes on to the close; so a second removal
\* of a connection changes nothing the first one has not changed.
UnregisterNoOp ==
    [][\A c \in Conns :
          (h[c].pc = "cleanup" /\ h'[c] # h[c] /\ c \notin DOMAIN clients) =>
              /\ registry' = registry
              /\ out' = out
              /\ leaves' = leaves
              /\ h'[c].pc = "close" /\ h'[c].line = h[c].line
      ]_vars

\* C14, its case: a session was removed, another session registered, and
\* _remove_client has run a second time for the first.
UnregisterTwiceCase ==
    \E c, d \in Conns :
        /\ c # d /\ cleanups[c] = 2 /\ leaves[c] = 1 /\ h[c].pc = "done"
        /\ d \in DOMAIN clients /\ h[d].nickname = h[c].nickname

\* The lines of a successful handshake for the nickname n, as the new
\* connection gets them from its own handler.
HandshakeLines(n) ==
    << <<"nicknameeul ibryeokhaejuseyo:">>,
       <<"nicknamei [">> \o n \o <<"]ro seoljeongdoeeossseubnida.">>,
       <<"[">> \o n \o <<"]nimi ibjanghasyeossseubnida.">>,
       <<"annae: ilban mesijineun moduege jeonsongdoebnida.">>,
       <<"annae: jongryoneun /jongryo, gwissokmareun /w daesangnick mesiji">> >>

\* The number of those lines that are written when the handler of c is where
\* it is; 5 stands for all of them.
HandshakeStage(c) ==
    CASE h[c].pc = "hs_prompt" -> 0
      [] h[c].pc \in {"hs_recv", "hs_unique", "hs_confirm", "hs_fail"} -> 1
      [] h[c].pc = "register" -> 2
      [] h[c].pc = "bc_snap" /\ h[c].ret = "help1" -> 2
      [] h[c].pc = "bc_send" /\ h[c].ret = "help1" ->
             IF \E i \in 1..(h[c].ti - 1) : h[c].targets[i] = c THEN 3 ELSE 2
      [] h[c].pc = "help1" -> 3
      [] h[c].pc = "help2" -> 4
      [] OTHER -> 5

\* C15: the handler writes to its connection the prompt, after reading one
\* line the confirmation naming the assigned nickname, and the two help lines
\* last, in this order and nothing in between but the join announcement; the
\* connection enters the registry after the confirmation and before the help
\* lines; a line of white space only gives the base name "user", any other
\* line its text without the surrounding white space; the assigned nickname
\* is the base when the base is free.
HandshakeOrder ==
    /\ [](\A c \in Conns :
            /\ (sock[c] = "open" /\ h[c].pc # "idle") =>
                   /\ Len(out[c][c]) >= HandshakeStage(c)
                   /\ HandshakeStage(c) < 5 => Len(out[c][c]) = HandshakeStage(c)
                   /\ \A i \in 1..HandshakeStage(c) :
                          out[c][c][i] = HandshakeLines(h[c].nickname)[i]
            /\ c \in DOMAIN clients =>
                   HandshakeStage(c) >= 2 /\ h[c].pc # "register"
            /\ HandshakeStage(c) \in {3, 4} => c \in DOMAIN clients)
    /\ [][\A c \in Conns :
            /\ (h[c].pc = "hs_recv" /\ h'[c].pc = "hs_unique") =>
                   /\ (\A i \in 1..Len(h'[c].data) : h'[c].data[i] \in {" ", "\n"}) =>
                          h'[c].raw = <<"u", "s", "e", "r">>
                   /\ h'[c].data = <<"a", "\n">> => h'[c].raw = <<"a">>
            /\ (h[c].pc = "hs_unique" /\ h'[c] # h[c] /\ h[c].raw \notin DOMAIN nick_map) =>
                   h'[c].nickname = h[c].raw
            /\ (c \notin DOMAIN clients /\ c \in DOMAIN clients') =>
                   /\ h[c].pc = "register"
                   /\ clients'[c] = h[c].nickname
       ]_vars

\* C15, its case: a peer has sent a blank line, is registered as "user" and
\* has got all the lines of the handshake.
HandshakeOrderCase ==
    \E c \in Conns :
        /\ h[c].pc = "recv" /\ sock[c] = "open"
        /\ c \in DOMAIN clients /\ clients[c] = <<"u", "s", "e", "r">>
        /\ out[c][c] = HandshakeLines(<<"u", "s", "e", "r">>)

\* The handler of c has given up its handshake: the read gave nothing, and
\* no nickname was assigned.
Aborted(c) ==
    h[c].nickname = NoNick /\ h[c].pc \in {"hs_fail", "cleanup", "close", "done"}

\* C16: a handshake read that gives no data (the peer has closed, or the read
\* has failed) takes the handler to the failure branch, which closes the
\* connection; from there on the handler never registers the connection and
\* changes nothing in the registry, writes no line to any connection (no
\* join, no leave), and only ends: it never reaches the message loop.
HandshakeAbortClean ==
    /\ [](\A c \in Conns :
            Aborted(c) =>
                /\ c \notin DOMAIN clients
                /\ \A n \in DOMAIN nick_map : nick_map[n] # c
                /\ leaves[c] = 0
                /\ \A d \in Conns : d # c => out[d][c] = <<>>
                /\ out[c][c] \in {<<>>, << <<"nicknameeul ibryeokhaejuseyo:">> >>}
                /\ h[c].pc # "hs_fail" => sock[c] = "closed")
    /\ [][\A c \in Conns :
            /\ (h[c].pc = "hs_recv" /\ h'[c] # h[c] /\ h'[c].data = <<>>) =>
                   /\ h'[c].pc = "hs_fail" /\ h'[c].nickname = NoNick
                   /\ registry' = registry /\ out' = out
            /\ (Aborted(c) /\ h'[c] # h[c]) =>
                   /\ Aborted(c)'
                   /\ registry' = registry /\ out' = out
                   /\ h[c].pc = "hs_fail" => h'[c].pc = "cleanup" /\ sock'[c] = "closed"
       ]_vars

\* C16, its case: a peer has closed without sending a nickname while another
\* session is registered; its handler has ended.
HandshakeAbortCase ==
    \E c, d \in Conns :
        /\ h[c].pc = "done" /\ Aborted(c) /\ sock[c] = "closed"
        /\ out[c][c] = <<PROMPT>>
        /\ d \in DOMAIN clients /\ h[d].pc = "recv"

\* s can be got from t by leaving elements out.
RECURSIVE IsSubseq(_, _)
IsSubseq(s, t) ==
    IF s = <<>> THEN TRUE
    ELSE IF t = <<>> THEN FALSE
    ELSE IF Head(s) = Head(t) THEN IsSubseq(Tail(s), Tail(t))
    ELSE IsSubseq(s, Tail(t))

QuitWord == <<"/", "jong", "ryo">>
QuitAndMore == <<"/", "jong", "ryo", " ", "x">>

\* C18: the handler is about to send the closing notice exactly when the
\* stripped line is the quit keyword; its step writes the notice to the
\* sender's own connection and nothing to any other, leaves the registry alone
\* and goes on to the clean-up, whose step removes the session and begins the
\* leave announcement; the keyword is never broadcast as a chat line.  A line
\* with the keyword and other text goes the way of a chat line: it is
\* broadcast with the sender's nickname and the session goes on reading.
QuitExact ==
    /\ [](\A c \in Conns :
            /\ h[c].pc = "quit_send" <=> h[c].msg = QuitWord
            /\ h[c].msg = QuitAndMore => h[c].pc = "chat_nick"
            /\ \A d \in Conns : \A i \in 1..Len(out[d][c]) :
                   out[d][c][i] # h[c].nickname \o <<">", " ">> \o QuitWord)
    /\ [][\A c \in Conns :
            /\ (h[c].pc = "quit_send" /\ h'[c] # h[c]) =>
                   /\ h'[c].pc = "cleanup"
                   /\ registry' = registry
                   /\ out' = IF sock[c] = "open"
                             THEN [out EXCEPT ![c][c] =
                                      Append(@, <<"yeongyeoreul jongryohabnida.">>)]
                             ELSE out
            /\ (h[c].pc = "cleanup" /\ h'[c] # h[c] /\ c \in DOMAIN clients) =>
                   /\ c \notin DOMAIN clients'
                   /\ h'[c].pc = "bc_snap" /\ h'[c].ret = "close"
                   /\ h'[c].line = <<"[">> \o clients[c] \o <<"]nimi toejanghasyeossseubnida.">>
            /\ (h[c].pc = "chat_nick" /\ h'[c] # h[c] /\ h[c].msg = QuitAndMore
                    /\ c \in DOMAIN clients) =>
                   /\ h'[c].pc = "bc_snap" /\ h'[c].ret = "recv"
                   /\ h'[c].line = clients[c] \o <<">", " ">> \o QuitAndMore
       ]_vars

\* C18, its case: one session has quit with the keyword, got the closing
\* notice as its last line and ended, and the others got its leave
\* announcement; another session's line with the keyword and more text has
\* reached a connection as a chat line.
QuitExactCase ==
    \E c, d, e \in Conns :
        /\ c # d /\ c # e
        /\ h[c].pc = "done" /\ out[c][c] # <<>>
        /\ out[c][c][Len(out[c][c])] = <<"yeongyeoreul jongryohabnida.">>
        /\ out[d][c] # <<>> /\ out[d][c][Len(out[d][c])] = LeaveLine(h[c].nickname)
        /\ \E i \in 1..Len(out[e][d]) :
               out[e][d][i] = h[d].nickname \o <<">", " ">> \o QuitAndMore

\* C19: a handler waiting in recv on a registered connection that the
\* shutdown has closed eventually leaves its loop for the clean-up, and every
\* session that is registered once a shutdown has begun is eventually removed
\* from the registry.
ForcedClosureCleanup ==
    \A c \in Conns :
        /\ (h[c].pc = "recv" /\ sock[c] = "closed" /\ c \in DOMAIN clients)
               ~> (h[c].pc \in {"cleanup", "bc_snap", "bc_send", "close", "done"})
        /\ (stop_event /\ c \in DOMAIN clients) ~> (c \notin DOMAIN clients)

\* C20: once the flag is set, the main thread eventually is in the shutdown
\* routine (or has returned from it); every return of accept() with the flag
\* set, whether by the timeout, with a connection or with an error, takes the
\* main thread out of the loop to the finally clause, so it does not wait in
\* accept() a second time.
AcceptorExits ==
    /\ stop_event ~> (mainpc \in {"shutdown", "exited"})
    /\ (stop_event /\ mainpc \in {"check", "accept"}) ~> (mainpc = "finally")
    /\ [][(stop_event /\ mainpc = "accept"
              /\ (mainpc' # mainpc \/ Accepted' # Accepted)) =>
          mainpc' = "finally"]_vars

\* C20, its case: the admin console has set the flag while the main thread was
\* waiting in accept() after an earlier connection and has not yet closed the
\* listening socket; the main thread has left the loop without another
\* connection and is in its own shutdown.
AcceptorExitsCase ==
    /\ stop_event /\ sd["admin"].pc \in {"snapshot", "send", "close", "listener"}
    /\ server_sock = "open"
    /\ mainpc = "shutdown" /\ sd["main"].pc # "idle"
    /\ Accepted # {} /\ lateAccepts = 0

\* The nicknames of the scenario and the lines it expects.
Alice == <<"a">>
Alice2 == <<"a", "2">>
AliceHello == <<"a", ">", " ", "h", "i">>
Alice2Whisper == <<"(gwissokmal) ", "a", "2", ">", " ", "h", " ", "i">>
Alice2WhisperSent ==
    <<"(gwissokmal jeonsong) ", "a", "2", " ", "-", ">", " ", "a", ":", " ", "h", " ", "i">>
AliceLeft == <<"[", "a", "]nimi toejanghasyeossseubnida.">>

\* C21: in the scenario where A and B act one after the other, A is
\* registered and confirmed as "a" and B as "a2"; once A's chat line "hi" is
\* dealt with, B has got "a> hi" from A; once B's whisper "/w a h i" is dealt
\* with, A has got the tagged whisper line of a2 and B the sent line naming a2
\* and a; once A's handler has ended after the quit command, A has got the
\* closing notice and B the leave announcement of a after the chat line.
ScenarioOutcome ==
    /\ 1 \in DOMAIN clients =>
           /\ clients[1] = Alice
           /\ out[1][1][2] = <<"nicknamei [", "a", "]ro seoljeongdoeeossseubnida.">>
    /\ 2 \in DOMAIN clients =>
           /\ clients[2] = Alice2
           /\ out[2][2][2] = <<"nicknamei [", "a", "2", "]ro seoljeongdoeeossseubnida.">>
    /\ (lines >= 1 /\ h[1].pc = "recv") =>
           /\ out[2][1] = <<AliceHello>>
           /\ out[1][1][Len(out[1][1])] = AliceHello
    /\ (lines >= 2 /\ h[2].pc = "recv") =>
           /\ out[1][2][Len(out[1][2])] = Alice2Whisper
           /\ out[2][2][Len(out[2][2])] = Alice2WhisperSent
           /\ \A d \in Conns \ {1, 2} : out[d][2] = <<>>
    /\ (lines = 3 /\ h[1].pc = "done") =>
           /\ out[1][1][Len(out[1][1])] = <<"yeongyeoreul jongryohabnida.">>
           /\ out[2][1] = <<AliceHello, AliceLeft>>
           /\ DOMAIN clients = {2} /\ DOMAIN nick_map = {Alice2}

\* C21, its case: the scenario has run to its end; B is the only session left
\* and has got the chat line and the leave announcement of A.
ScenarioDone ==
    /\ lines = 3 /\ h[1].pc = "done" /\ h[2].pc = "recv"
    /\ out[2][1] = <<AliceHello, AliceLeft>>
    /\ out[1][2] = <<JoinLine(Alice2), Alice2Whisper>>

\* The threads inside a block of the lock.
Holders ==
    {<<"handler", c>> : c \in {x \in Conns : h[x].holds}}
        \cup {<<"shutdown", t>> : t \in {x \in Threads : sd[x].holds}}

\* C22: a handler that has made the first of the two map updates of a
\* registration or a removal holds the lock until it has made the second, and
\* it is the only thread inside a block; while it is between the two updates
\* no other thread gets into or through a block that reads or writes the
\* registry (nickname search, registration, removal, snapshot of a broadcast or
\* of the shutdown, nickname lookup), so nobody sees the one-sided entry.
RegistryAtomic ==
    /\ [](/\ Cardinality(Holders) <= 1
          /\ \A c \in Conns :
                 /\ h[c].pc \in MidPcs => h[c].holds
                 /\ h[c].pc = "register2" =>
                        /\ c \in DOMAIN clients
                        /\ Get(nick_map, h[c].nickname, NoSock) # c
                 /\ h[c].pc = "cleanup2" => c \notin DOMAIN clients)
    /\ [][\A c \in Conns :
            h[c].pc \in MidPcs =>
                /\ \A d \in Conns \ {c} : h[d].pc \in LockPcs \cup MidPcs => h'[d] = h[d]
                /\ \A t \in Threads : sd[t].pc = "snapshot" => sd'[t] = sd[t]
                /\ (registry' # registry => h'[c].pc \notin MidPcs /\ ~h'[c].holds)
       ]_vars

\* C22, its case: a handler is between the two updates of its registration,
\* its connection is in clients and its nickname not yet in nick_map, while
\* another handler and the shutdown wait for the lock.
RegistryAtomicCase ==
    \E c, d \in Conns :
        /\ c # d
        /\ h[c].pc = "register2" /\ h[c].nickname \notin DOMAIN nick_map
        /\ h[d].pc \in LockPcs /\ ~h[d].holds
        /\ sd["main"].pc = "snapshot"

\* The thread waits for the lock.
Requesting(c) == running /\ h[c].pc \in LockPcs /\ ~h[c].holds
ShutdownRequesting(t) == running /\ sd[t].pc = "snapshot" /\ ~sd[t].holds

\* C23: a thread inside a block of the lock is at one of the statements of
\* the blocks, never at a send, a recv or a close; its step writes to no
\* connection, closes none and reads from none, and after it the thread has
\* left the block unless it is between the two updates of a registration or
\* a removal, so it never asks for the lock while it holds it.  The snapshots
\* of a broadcast and of the shutdown are taken inside a block and the
\* writes come after it.  A thread inside a block can always go on, and
\* every thread that waits for the lock gets it, as long as the process runs.
LockDiscipline ==
    /\ [](/\ \A c \in Conns : h[c].holds => h[c].pc \in LockPcs \cup MidPcs
          /\ \A t \in Threads : sd[t].holds => sd[t].pc = "snapshot"
          /\ \A c \in Conns : (running /\ h[c].holds) => ENABLED LockedStep(c)
          /\ \A t \in Threads : (running /\ sd[t].holds) => ENABLED ShutdownSnapshot(t))
    /\ [][/\ \A c \in Conns :
               (h[c].holds /\ h'[c] # h[c]) =>
                   /\ out' = out /\ notices' = notices /\ sock' = sock
                   /\ server_sock' = server_sock /\ lines' = lines /\ inflight' = inflight
                   /\ h'[c].holds => h'[c].pc \in MidPcs
          /\ \A c \in Conns :
               (h[c].pc = "bc_snap" /\ h'[c].pc = "bc_send") =>
                   h[c].holds /\ ~h'[c].holds /\ out' = out
          /\ \A t \in Threads :
               (sd[t].pc = "snapshot" /\ sd'[t].pc # "snapshot") =>
                   /\ sd[t].holds /\ ~sd'[t].holds
                   /\ notices' = notices /\ sock' = sock /\ server_sock' = server_sock
       ]_vars
    /\ \A c \in Conns : Requesting(c) ~> (h[c].holds \/ ~running)
    /\ \A t \in Threads : ShutdownRequesting(t) ~> (sd[t].holds \/ ~running)

\* C23, its case: a handler is in the sends of a broadcast, outside the lock,
\* while another handler is inside a block and the shutdown waits for the lock.
LockDisciplineCase ==
    \E c, d \in Conns :
        /\ c # d
        /\ h[c].pc = "bc_send" /\ ~h[c].holds /\ h[c].ti = 1
        /\ h[d].holds
        /\ ShutdownRequesting("main")

\* C24: a write of a broadcast or of a whisper to a connection that is closed
\* changes nothing but the position of the writing handler: no line is
\* written, the registry and every socket stay as they are, no other handler
\* and no other thread moves; the broadcast goes on with the next connection
\* of its snapshot and the same line, or returns after the last one (a chat
\* broadcast to recv, with the sender still registered if it was); the
\* whisper goes on with the line to the sender.
WriteFailureSwallowed ==
    [][\A c \in Conns :
         /\ (h[c].pc = "bc_send" /\ h'[c] # h[c]
                 /\ sock[h[c].targets[h[c].ti]] # "open") =>
                /\ out' = out /\ registry' = registry /\ sock' = sock
                /\ \A d \in Conns \ {c} : h'[d] = h[d]
                /\ mainpc' = mainpc /\ running' = running /\ sd' = sd
                /\ IF h[c].ti < Len(h[c].targets)
                   THEN /\ h'[c].pc = "bc_send" /\ h'[c].ti = h[c].ti + 1
                        /\ h'[c].targets = h[c].targets /\ h'[c].line = h[c].line
                        /\ h'[c].ret = h[c].ret
                   ELSE h'[c].pc = h[c].ret
         /\ (h[c].pc = "w_target" /\ h'[c] # h[c] /\ sock[h[c].target_sock] # "open") =>
                /\ out' = out /\ registry' = registry /\ sock' = sock
                /\ \A d \in Conns \ {c} : h'[d] = h[d]
                /\ mainpc' = mainpc /\ running' = running /\ sd' = sd
                /\ h'[c].pc = "w_sender"
         /\ (h[c].pc = "w_sender" /\ h'[c] # h[c]) =>
                /\ h'[c].pc = "recv"
                /\ registry' = registry
      ]_vars

\* C24, its case: the chat broadcast of one session is at a connection of its
\* snapshot that has been closed meanwhile, with connections still to come,
\* and a whisper of another session is about to be written to the same
\* closed connection.
WriteFailureCase ==
    \E c, d, e \in Conns :
        /\ c # d /\ e # d /\ c # e
        /\ h[c].pc = "bc_send" /\ h[c].ret = "recv" /\ c \in DOMAIN clients
        /\ h[c].targets[h[c].ti] = d /\ h[c].ti < Len(h[c].targets)
        /\ sock[d] = "closed"
        /\ h[e].pc = "w_target" /\ h[e].target_sock = d

\* C25: what the loop takes as one command is one line, whatever the reads
\* hold: the message a handler deals with and every line it writes have no
\* line end inside.
LinesAreCommands ==
    \A c \in Conns :
        /\ \A i \in 1..Len(h[c].msg) : h[c].msg[i] # "\n"
        /\ \A d \in Conns : \A k \in 1..Len(out[d][c]) :
               \A i \in 1..Len(out[d][c][k]) : out[d][c][k][i] # "\n"

\* The handler of c is in the broadcast of its join announcement.
InJoin(c) == h[c].pc \in {"bc_snap", "bc_send"} /\ h[c].ret = "help1"

\* C26: the join announcement is broadcast when the session is registered and
\* the help lines are not yet written; its snapshot is the registry at that
\* moment and holds the joining connection; every connection of the snapshot
\* that the broadcast has passed and that is open has got the announcement
\* from the joining handler, and so has the joining connection itself when
\* the help lines are due.
JoinAfterRegister ==
    /\ [](\A c \in Conns :
            /\ InJoin(c) =>
                   /\ c \in DOMAIN clients
                   /\ h[c].line = <<"[">> \o clients[c] \o <<"]nimi ibjanghasyeossseubnida.">>
                   /\ \A i \in 1..Len(out[c][c]) :
                          out[c][c][i] \notin {HELP1, HELP2}
            /\ (InJoin(c) /\ h[c].pc = "bc_send") =>
                   /\ \E i \in 1..Len(h[c].targets) : h[c].targets[i] = c
                   /\ \A i \in 1..(h[c].ti - 1) :
                          sock[h[c].targets[i]] = "open" =>
                              \E k \in 1..Len(out[h[c].targets[i]][c]) :
                                  out[h[c].targets[i]][c][k] = h[c].line
            /\ (h[c].pc \in {"help1", "help2"} /\ sock[c] = "open") =>
                   \E k \in 1..Len(out[c][c]) :
                       out[c][c][k] = <<"[">> \o h[c].nickname \o <<"]nimi ibjanghasyeossseubnida.">>)
    /\ [][\A c \in Conns :
            /\ (h[c].pc = "bc_snap" /\ h[c].ret = "help1" /\ h'[c] # h[c]) =>
                   /\ h'[c].pc = "bc_send"
                   /\ h'[c].targets = clients_keys
                   /\ \A d \in DOMAIN clients : \E i \in 1..Len(h'[c].targets) :
                          h'[c].targets[i] = d
            /\ (h[c].pc = "bc_send" /\ h[c].ret = "help1" /\ h'[c] # h[c]
                    /\ sock[h[c].targets[h[c].ti]] = "open") =>
                   out'[h[c].targets[h[c].ti]][c] =
                       Append(out[h[c].targets[h[c].ti]][c], h[c].line)
            /\ (h[c].pc = "bc_send" /\ h[c].ret = "help1" /\ h'[c].pc # "bc_send") =>
                   h'[c].pc = "help1"
       ]_vars

\* C26, its case: the second session is about to get its help lines; it and
\* the session registered before it have got its join announcement.
JoinAfterRegisterCase ==
    \E c, d \in Conns :
        /\ c # d /\ h[c].pc = "help1" /\ h[d].pc = "recv"
        /\ out[d][c] = <<JoinLine(h[c].nickname)>>
        /\ out[c][c][Len(out[c][c])] = JoinLine(h[c].nickname)
        /\ DOMAIN clients = {c, d}

\* C27: the clients entry of a connection is the nickname its handler got in
\* the handshake and confirmed to the peer, and no step changes it while the
\* connection stays registered; the chat lines, the two whisper lines and the
\* leave announcement that a handler issues carry that nickname as the sender.
NicknameStable ==
    /\ [](\A c \in Conns :
            c \in DOMAIN clients =>
                /\ clients[c] = h[c].nickname
                /\ Len(h[c].issued) >= 2
                /\ h[c].issued[2] =
                       <<"nicknamei [">> \o clients[c] \o <<"]ro seoljeongdoeeossseubnida.">>)
    /\ [][\A c \in Conns :
            /\ (c \in DOMAIN clients /\ c \in DOMAIN clients') => clients'[c] = clients[c]
            /\ (h[c].pc = "chat_nick" /\ Len(h'[c].issued) > Len(h[c].issued)) =>
                   h'[c].issued[Len(h'[c].issued)] =
                       h[c].nickname \o <<">", " ">> \o h[c].msg
            /\ (h[c].pc = "w_target" /\ h'[c] # h[c]) =>
                   \E tm \in Cuts(h[c].msg) :
                       h'[c].issued[Len(h'[c].issued)] =
                           <<"(gwissokmal) ">> \o h[c].nickname \o <<">", " ">> \o tm[2]
            /\ (h[c].pc = "w_sender" /\ h'[c] # h[c]) =>
                   \E tm \in Cuts(h[c].msg) :
                       h'[c].issued[Len(h'[c].issued)] =
                           <<"(gwissokmal jeonsong) ">> \o h[c].nickname
                               \o <<" ", "-", ">", " ">> \o tm[1] \o <<":", " ">> \o tm[2]
            /\ (h[c].pc = "cleanup" /\ Len(h'[c].issued) > Len(h[c].issued)) =>
                   h'[c].issued[Len(h'[c].issued)] =
                       <<"[">> \o h[c].nickname \o <<"]nimi toejanghasyeossseubnida.">>
       ]_vars

\* C27, its case: the session a2 has sent a chat line and a whisper and has
\* left; the five lines it issued after its handshake all name a2.
NicknameStableCase ==
    \E c \in Conns :
        /\ h[c].nickname = <<"a", "2">> /\ h[c].pc = "done"
        /\ Len(h[c].issued) = 9
        /\ h[c].issued[6] = <<"a", "2", ">", " ", "h", "i">>
        /\ h[c].issued[9] = LeaveLine(<<"a", "2">>)

\* C28: a read whose chunk is empty after stripping changes nothing but the
\* count of chunks read: the handler is back at its recv, no line is written
\* to any connection, no connection is closed and the registry is the same.
BlankIgnored ==
    [][\A c \in Conns :
            (/\ h[c].pc = "recv" /\ lines' = lines + 1
             /\ h'[c].msg = <<>>
             /\ \A d \in Conns \ {c} : h'[d] = h[d]) =>
                /\ h'[c].pc = "recv"
                /\ h'[c].issued = h[c].issued
                /\ h'[c].nickname = h[c].nickname
                /\ out' = out /\ notices' = notices
                /\ registry' = registry
                /\ sock' = sock
       ]_vars

\* C28, its case: two chunks were read, a blank one among them; the only
\* line issued since the handshakes is one chat line, and every handler is
\* reading again.
BlankIgnoredCase ==
    /\ lines = 2
    /\ \A c \in DOMAIN clients : h[c].pc = "recv"
    /\ DOMAIN clients = 1..ChatConns
    /\ \E c \in DOMAIN clients :
           /\ Len(h[c].issued) = 6
           /\ h[c].issued[6] = ChatLine(h[c].nickname, Strip(CHAT_HI))
           /\ \A d \in DOMAIN clients :
                  /\ out[d][c][Len(out[d][c])] = h[c].issued[6]
                  /\ d # c => Len(h[d].issued) = 5

\* What holds of the removals: a connection leaves clients only by the removal
\* step of its own handler's cleanup, and a nick_map entry goes only in such a
\* step of a handler registered under that nickname; every step that changes
\* clients, its key list or nick_map is a registration or a cleanup step of a
\* handler, so no step of a shutdown, of a broadcast or of a whisper changes
\* them.  A handler that looks up its own nickname for a chat line is
\* registered, and goes on to the broadcast.
RegistryFrame ==
    /\ [](\A c \in Conns : h[c].pc = "chat_nick" => GetNickname(c) # NoNick)
    /\ [][
            /\ \A c \in DOMAIN clients \ DOMAIN clients' :
                   /\ h[c].pc = "cleanup" /\ h'[c].pc = "bc_snap" /\ h'[c].ret = "close"
                   /\ cleanups'[c] = cleanups[c] + 1
            /\ \A n \in DOMAIN nick_map \ DOMAIN nick_map' :
                   \E d \in DOMAIN clients \ DOMAIN clients' : clients[d] = n
            /\ registry' # registry =>
                   /\ sd' = sd /\ out' = out /\ sock' = sock
                   /\ \E d \in Conns :
                          /\ h[d].pc \in {"register", "cleanup"}
                          /\ h'[d].pc \notin {"register", "cleanup"}
                          /\ \A e \in Conns \ {d} : h'[e] = h[e]
            /\ \A d \in Conns :
                   (h[d].pc = "chat_nick" /\ h'[d] # h[d]) =>
                       /\ h'[d].pc = "bc_snap" /\ h'[d].ret = "recv"
       ]_vars

\* C29: the entry of a connection goes from either registry map only by the
\* removal step of that connection's own handler in its cleanup: the
\* connection leaves clients only then, and the nick_map entry that leads to
\* the connection is deleted only then; shutdown, broadcast and whisper steps
\* change neither map, and the nickname lookup for a chat line succeeds.
OwnRemovalOnly ==
    /\ RegistryFrame
    /\ [][\A n \in DOMAIN nick_map \ DOMAIN nick_map' :
              /\ h[nick_map[n]].pc = "cleanup"
              /\ h'[nick_map[n]].pc \in {"bc_snap", "close"}
       ]_vars

\* The positions in seq at which the line x stands.
Places(seq, x) == {i \in 1..Len(seq) : seq[i] = x}

\* The join and the leave announcements, of whatever nickname, among the lines
\* the handler of c has issued.
IsJoinLine(l) == Len(l) >= 2 /\ l = JoinLine(SubSeq(l, 2, Len(l) - 1))
IsLeaveLine(l) == Len(l) >= 2 /\ l = LeaveLine(SubSeq(l, 2, Len(l) - 1))
JoinsOf(c) == {i \in 1..Len(h[c].issued) : IsJoinLine(h[c].issued[i])}
LeavesOf(c) == {i \in 1..Len(h[c].issued) : IsLeaveLine(h[c].issued[i])}

\* C30: the handler of a connection issues a leave announcement at most once,
\* only after it has registered the connection and issued its join
\* announcement, with the nickname of that announcement, and only when the
\* connection is out of the registry; a handler that has ended has issued as
\* many leave as join announcements (none after a failed handshake); the
\* snapshot of the leave broadcast does not hold the leaving connection, which
\* is never written its own leave line, and another connection gets the line
\* at most once and after that session's join line.
LeaveMatchesJoin ==
    \A c \in Conns :
        /\ Cardinality(JoinsOf(c)) <= 1
        /\ Cardinality(LeavesOf(c)) <= Cardinality(JoinsOf(c))
        /\ leaves[c] = Cardinality(LeavesOf(c))
        /\ c \in DOMAIN clients => JoinsOf(c) # {} /\ LeavesOf(c) = {}
        /\ \A i \in LeavesOf(c) :
               /\ \A j \in JoinsOf(c) : j < i
               /\ h[c].issued[i] = LeaveLine(h[c].nickname)
               /\ i = Len(h[c].issued)
               /\ c \notin DOMAIN clients
        /\ h[c].pc = "done" => Cardinality(LeavesOf(c)) = Cardinality(JoinsOf(c))
        /\ (h[c].pc \in {"close", "done"} /\ h[c].nickname = NoNick) =>
               JoinsOf(c) = {} /\ LeavesOf(c) = {}
        /\ (InLeave(c) /\ h[c].pc = "bc_send") => c \notin Range(h[c].targets)
        /\ Places(out[c][c], LeaveLine(h[c].nickname)) = {}
        /\ \A d \in Conns :
               /\ Cardinality(Places(out[d][c], LeaveLine(h[c].nickname))) <= 1
               /\ \A i \in Places(out[d][c], LeaveLine(h[c].nickname)) :
                      /\ LeavesOf(c) # {}
                      /\ i = Len(out[d][c])

\* C30, its case: two sessions have ended.  The one registered last left
\* first: the other got its join and then its leave announcement.  The other
\* left when nobody was registered: its leave announcement, issued once, was
\* written to no connection.
LeaveMatchesJoinCase ==
    \E c, d \in Conns :
        /\ c # d /\ h[c].pc = "done" /\ h[d].pc = "done"
        /\ out[d][c] = <<JoinLine(h[c].nickname), LeaveLine(h[c].nickname)>>
        /\ Cardinality(LeavesOf(c)) = 1 /\ Cardinality(LeavesOf(d)) = 1
        /\ \A e \in Conns : Places(out[e][d], LeaveLine(h[d].nickname)) = {}

\* The handler of c looks up the target of the line `/w n m`, n being the
\* nickname of another registered connection d that nick_map leads to, and m
\* not empty.
WhisperTo(c, d, m) ==
    /\ c \in DOMAIN clients /\ d \in DOMAIN clients /\ c # d
    /\ nick_map[clients[d]] = d
    /\ m # <<>>
    /\ h[c].msg = WPREFIX \o clients[d] \o <<" ">> \o m
    /\ h[c].pc = "w_lookup" /\ h'[c].pc = "w_nick"

\* The ends of msg: what may be the message m of a line `/w n m`.
Tails(msg) == {SubSeq(msg, k, Len(msg)) : k \in 1..Len(msg)}

\* C31: a whisper line `/w n m` with a non-empty message m, sent by a session
\* other than the one registered under the nickname n, is routed to the
\* connection registered under n, whatever nickname of the handshake n is, one
\* with a space inside included.
NicknameAddressable ==
    [][\A c, d \in Conns : \A m \in Tails(h[c].msg) :
          WhisperTo(c, d, m) => h'[c].target_sock = d
      ]_vars

\* The same for the nicknames without a space.
PlainNicknameAddressable ==
    [][\A c, d \in Conns : \A m \in Tails(h[c].msg) :
          (WhisperTo(c, d, m) /\ \A i \in 1..Len(clients[d]) : clients[d][i] # " ") =>
              h'[c].target_sock = d
      ]_vars

\* The session z has whispered to the session "a b" and was told that there
\* is no "a"; the session "a b" got nothing from it.
SpaceNicknameLost ==
    \E c, d \in Conns :
        /\ c # d /\ DOMAIN clients = {c, d}
        /\ clients[c] = <<"z">> /\ clients[d] = <<"a", " ", "b">>
        /\ h[c].pc = "recv" /\ h[d].pc = "recv"
        /\ out[c][c][Len(out[c][c])] = NotFoundLine(<<"a">>)
        /\ \A i \in 1..Len(out[d][c]) : out[d][c][i] = JoinLine(<<"z">>)

=============================================================================
